---- MODULE Spec2Model ----
(***************************************************************************)
(* HR-Dashboard: the data transformation and metrics pipeline              *)
(* (data_processing.py) and the Streamlit session that drives it (app.py). *)
(*                                                                         *)
(* Representation.                                                         *)
(*  - A column header is a sequence of characters at word granularity:     *)
(*    each element is a word (no whitespace inside), a blank " " or a      *)
(*    newline "\n".  'Join Date\n(yyyy/mm/dd)' is                          *)
(*    <<"Join", " ", "Date", "\n", "(yyyy/mm/dd)">>.                       *)
(*  - A cell is a tagged pair: NaN (pandas NaN/NaT/None, an empty Excel    *)
(*    cell), S(x) a string, D(t) a timestamp, N(n) a number.               *)
(*  - A timestamp D(t) is the whole-day offset t from "now": t <= 0 is     *)
(*    today or the past, t > 0 the future; (now - date).days = -t.         *)
(*  - A table (DataFrame) is [cols |-> headers, rows |-> rows], a row      *)
(*    being the sequence of its cells in column order.                     *)
(*  - Floating point results are kept exact: a tenure is a number of       *)
(*    tenths of a month, a rate or mean is a fraction Q(n, d) or QNaN.     *)
(***************************************************************************)
EXTENDS Integers, Sequences, FiniteSets, TLC

VARIABLES
    uploaded,   \* the raw table handed to load_excel / process_data (the file
                \* in the upload widget of the dashboard), or NoFile
    norm,       \* the column labels after the header step of process_data
    load,       \* outcome of process_data: Ok(table) or Raise(error), or None
    filtered,   \* the record subset handed to calculate_kpis, or None
    kpis,       \* the KPI dictionary of the last run, or None
    disk,       \* the persisted file (DATA_FILE), or NoFile
    reloaded,   \* outcome of load_excel on the persisted file, or None
    stage,      \* position in the run
    session,    \* st.session_state['hr_data'], or None
    hr_file_name,   \* st.session_state['hr_file_name'], or None
    df,         \* the table of the current script run, or None
    msg,        \* the sidebar message of the data loading block
    note,       \* the message of the edit tab
    del_confirm,    \* st.session_state['del_confirm'], the confirmation checkbox
    status_filter,  \* the Employee Status select box
    other,      \* the second workbook the user holds, next to the master sheet
    cohort,     \* outcome of get_cohort_retention, or None
    manager_data,   \* outcome of get_manager_attrition, or None
    name_col,   \* outcome of detect_name_column, or None
    turnover,   \* the counts of the regrettable turnover analysis, or None
    split,      \* the counts of the voluntary / involuntary split, or None
    role        \* the role of the user in front of the dashboard

appVars == <<session, hr_file_name, df, msg, note, del_confirm, status_filter, other>>

reportVars == <<cohort, manager_data, name_col, turnover, split>>

vars ==
    <<uploaded, norm, load, filtered, kpis, disk, reloaded, stage, appVars, reportVars, role>>

\* bounds of the model
MaxRows == 2
MaxCols == 3

None == [none |-> TRUE]
NoFile == [nofile |-> TRUE]

---------------------------------------------------------------------------
(* Cells *)

NaN == <<"nan", "nan">>
S(x) == <<"s", x>>
D(t) == <<"d", t>>
N(n) == <<"n", n>>

IsNa(c) == c[1] = "nan"
IsDate(c) == c[1] = "d"

\* Series.fillna(value)
fillna(c, value) == IF IsNa(c) THEN value ELSE c

---------------------------------------------------------------------------
(* Column headers *)

ColJoinDate == <<"Join", " ", "Date">>
ColExitDate == <<"Exit", " ", "Date">>
ColPositionAfterJoining == <<"Position", " ", "After", " ", "Joining">>
ColBirthdayDate == <<"Birthday", " ", "Date">>
ColProbationEnd == <<"Probation", " ", "Period", " ", "End", " ", "Date">>
ColEmployeeStatus == <<"Employee", " ", "Status">>
ColGender == <<"Gender">>
ColDepartment == <<"Department">>
ColPosition == <<"Position">>
ColExitType == <<"Exit", " ", "Type">>
ColType == <<"Type">>
ColVendor == <<"Vendor">>
ColNationality == <<"Nationality">>
ColExitReasonList == <<"Exit", " ", "ReasonList">>
ColExitReasonCategory == <<"Exit", " ", "Reason", " ", "Category">>
ColFullName == <<"Full", " ", "Name">>

ColAge == <<"Age">>
ColTenure == <<"Tenure", " ", "(Months)">>
ColJoinYear == <<"Join", " ", "Year">>
ColJoinMonth == <<"Join", " ", "Month">>
ColJoinQuarter == <<"Join", " ", "Quarter">>
ColExitYear == <<"Exit", " ", "Year">>
ColExitMonth == <<"Exit", " ", "Month">>
ColProbationCompleted == <<"Probation", " ", "Completed">>
ColEmploymentType == <<"Employment", " ", "Type">>

\* get_manager_attrition: the input column and the output columns
ColManager ==
    <<"Direct", " ", "Manager", " ", "CRM", " ", "while", " ", "Resignation">>
ColManagerCRM == <<"Manager", " ", "CRM">>
ColDepartures == <<"Departures">>
ColAvgTenure == <<"Avg", " ", "Tenure", " ", "(Months)">>
ColTopExitReason == <<"Top", " ", "Exit", " ", "Reason">>

\* get_cohort_retention: the output columns next to Join Year
ColTotal == <<"Total">>
ColActive == <<"Active">>
ColDeparted == <<"Departed">>
ColRetentionRate == <<"Retention", " ", "Rate", " ", "%">>

\* keys of rename_map
KeyJoinDate == <<"Join", " ", "Date", " ", "(yyyy/mm/dd)">>
KeyExitDate == <<"Exit", " ", "Date", " ", "yyyy/mm/dd">>
KeyPosition == <<"Position", " ", "(After", " ", "Joining)">>

\* values of reverse_map
RawJoinDate == <<"Join", " ", "Date", "\n", "(yyyy/mm/dd)">>
RawExitDate == <<"Exit", " ", "Date", "\n", "yyyy/mm/dd">>
RawPosition == <<"Position", "\n", "(After", " ", "Joining)">>

rename_map ==
    (KeyJoinDate :> ColJoinDate) @@ (KeyExitDate :> ColExitDate)
        @@ (KeyPosition :> ColPositionAfterJoining)

reverse_map_exit_as_join ==
    (ColJoinDate :> RawJoinDate) @@ (ColExitDate :> RawJoinDate)
        @@ (ColPositionAfterJoining :> RawPosition)

reverse_map ==
    (ColJoinDate :> RawJoinDate) @@ (ColExitDate :> RawExitDate)
        @@ (ColPositionAfterJoining :> RawPosition)

date_cols == <<ColJoinDate, ColExitDate, ColBirthdayDate, ColProbationEnd>>

calc_cols_without_employment_type ==
    {ColAge, ColTenure, ColJoinYear, ColJoinMonth, ColJoinQuarter,
     ColExitYear, ColExitMonth, ColProbationCompleted}

calc_cols ==
    {ColAge, ColTenure, ColJoinYear, ColJoinMonth, ColJoinQuarter,
     ColExitYear, ColExitMonth, ColProbationCompleted, ColEmploymentType}

REQUIRED_COLUMNS ==
    <<ColGender, ColDepartment, ColPosition, ColEmployeeStatus, ColExitType>>

\* the finite sequence s as an explicit tuple (TLC evaluates a function
\* constructor anew on every application)
Tuple(s) == s \o <<>>

\* str.replace('\n', ' ')
ReplaceNewline(h) == Tuple([i \in 1..Len(h) |-> IF h[i] = "\n" THEN " " ELSE h[i]])

IsSpace(ch) == ch \in {" ", "\n", "\t", "\r"}

RECURSIVE LStrip(_)
LStrip(h) == IF h # <<>> /\ IsSpace(Head(h)) THEN LStrip(Tail(h)) ELSE h

RECURSIVE RStrip(_)
RStrip(h) ==
    IF h # <<>> /\ IsSpace(h[Len(h)]) THEN RStrip(SubSeq(h, 1, Len(h) - 1)) ELSE h

\* str.strip()
Strip(h) == LStrip(RStrip(h))

CleanHeader_no_strip(h) == ReplaceNewline(h)

\* df.columns.str.replace('\n', ' ').str.strip()
CleanHeader(h) == Strip(ReplaceNewline(h))

\* df.rename(columns={k: v for k, v in m.items() if k in df.columns})
RenameCols(cols, m) ==
    Tuple([i \in 1..Len(cols) |-> IF cols[i] \in DOMAIN m THEN m[cols[i]] ELSE cols[i]])

\* process_data, the header step: clean every label, then rename
NormalizeHeaders(cols) ==
    RenameCols(Tuple([i \in 1..Len(cols) |-> CleanHeader(cols[i])]), rename_map)

---------------------------------------------------------------------------
(* Tables *)

NRows(t) == Len(t.rows)
RowIds(t) == 1..Len(t.rows)
ColSet(t) == {t.cols[i] : i \in 1..Len(t.cols)}

\* h in df.columns
Has(t, h) == \E i \in 1..Len(t.cols) : t.cols[i] = h

\* the label h names more than one column: df[h] is then a DataFrame
Dup(t, h) == Cardinality({i \in 1..Len(t.cols) : t.cols[i] = h}) > 1

Idx(t, h) == CHOOSE i \in 1..Len(t.cols) : t.cols[i] = h

\* df[h].iloc[r]
Cell(t, r, h) == t.rows[r][Idx(t, h)]

\* df[h] = F: overwrite the column(s) labelled h in place, or append h as
\* the last column
Assign(t, h, F(_)) ==
    IF Has(t, h)
    THEN [cols |-> t.cols,
          rows |-> Tuple([r \in RowIds(t) |->
                      Tuple([i \in 1..Len(t.cols) |->
                          IF t.cols[i] = h THEN F(r) ELSE t.rows[r][i]])])]
    ELSE [cols |-> Append(t.cols, h),
          rows |-> Tuple([r \in RowIds(t) |-> Append(t.rows[r], F(r))])]

\* df[h] = df[h].fillna(value)
FillCol(t, h, value) ==
    [cols |-> t.cols,
     rows |-> Tuple([r \in RowIds(t) |->
                 Tuple([i \in 1..Len(t.cols) |->
                     IF t.cols[i] = h THEN fillna(t.rows[r][i], value)
                     ELSE t.rows[r][i]])])]

\* df.drop(columns=[c for c in dropped if c in df.columns])
KeptIdx(cols, dropped) == {i \in 1..Len(cols) : cols[i] \notin dropped}

RECURSIVE PickSeq(_, _, _)
PickSeq(s, keep, i) ==
    IF i > Len(s) THEN <<>>
    ELSE (IF i \in keep THEN <<s[i]>> ELSE <<>>) \o PickSeq(s, keep, i + 1)

\* df[mask]: the rows whose ids are in keep, in order
Subset(t, keep) == [cols |-> t.cols, rows |-> PickSeq(t.rows, keep, 1)]

DropCols(t, dropped) ==
    LET keep == KeptIdx(t.cols, dropped)
    IN  [cols |-> PickSeq(t.cols, keep, 1),
         rows |-> Tuple([r \in RowIds(t) |-> PickSeq(t.rows[r], keep, 1)])]

Ok(t) == [ok |-> TRUE, df |-> t]
Raise(e) == [ok |-> FALSE, err |-> e]
KeyError(h) == [type |-> "KeyError", key |-> h]
ValueError == [type |-> "ValueError", key |-> <<>>]
IsOk(x) == x # None /\ x.ok

---------------------------------------------------------------------------
(* Date arithmetic.  "now" is day 307 of the year 2026 in a calendar of   *)
(* 365-day years and 31-day months; only day differences, which are exact, *)
(* enter Age and Tenure.                                                   *)

\* (today - date).days
DaysSince(c) == 0 - c[2]

\* float -> int conversion of astype(int): truncation toward zero
TruncDiv(a, b) == IF a >= 0 THEN a \div b ELSE 0 - ((0 - a) \div b)

\* (days / 30.44).round(1), in tenths of a month
TenureTenths(days) == (days * 1000 + 1522) \div 3044

\* Series.dt.year
YearOf(t) == 2026 + ((307 + t) \div 365)
MonthOf(t) == (((307 + t) % 365) \div 31) + 1
QuarterOf(t) == ((MonthOf(t) - 1) \div 3) + 1

\* datetime.now().year
current_year == YearOf(0)

\* pd.to_datetime(x, errors='coerce'): a timestamp stays, anything that is
\* not a date (missing, unparseable text) becomes NaT
to_datetime(c) == IF IsDate(c) THEN c ELSE NaN

\* Series.dt.year and Series.dt.to_period(f).astype(str)
dt_year(c) == IF IsNa(c) THEN NaN ELSE N(YearOf(c[2]))
period_M(c) == IF IsNa(c) THEN S("NaT") ELSE N(YearOf(c[2]) * 100 + MonthOf(c[2]))
period_Q(c) == IF IsNa(c) THEN S("NaT") ELSE N(YearOf(c[2]) * 10 + QuarterOf(c[2]))

---------------------------------------------------------------------------
(* process_data *)

ParseCol(t, h) ==
    IF Has(t, h) THEN Assign(t, h, LAMBDA r : to_datetime(Cell(t, r, h))) ELSE t

\* for col in date_cols: if col in df.columns: df[col] = pd.to_datetime(...)
ParseDates(t) ==
    ParseCol(ParseCol(ParseCol(ParseCol(t, date_cols[1]), date_cols[2]),
                      date_cols[3]), date_cols[4])

AgeOf_365_day_years(t, r) ==
    LET b == Cell(t, r, ColBirthdayDate)
    IN  IF IsNa(b) THEN N(0) ELSE N(TruncDiv(DaysSince(b), 365))

\* ((today - df['Birthday Date']).dt.days / 365.25).fillna(0).astype(int)
AgeOf(t, r) ==
    LET b == Cell(t, r, ColBirthdayDate)
    IN  IF IsNa(b) THEN N(0) ELSE N(TruncDiv(DaysSince(b) * 100, 36525))

TenureOf_always_to_now(t, r) ==
    LET j == Cell(t, r, ColJoinDate)
    IN  IF IsNa(j) THEN N(0) ELSE N(TenureTenths(DaysSince(j)))

\* np.where(status == 'Active', (today - join).days / 30.44,
\*          (exit - join).days / 30.44), NaN -> 0, rounded to 1 decimal
TenureOf(t, r) ==
    LET j == Cell(t, r, ColJoinDate)
        e == Cell(t, r, ColExitDate)
    IN  IF Cell(t, r, ColEmployeeStatus) = S("Active")
        THEN IF IsNa(j) THEN N(0) ELSE N(TenureTenths(DaysSince(j)))
        ELSE IF IsNa(j) \/ IsNa(e) THEN N(0) ELSE N(TenureTenths(e[2] - j[2]))

ProbationOf_exit_first(t, r) ==
    LET p  == Cell(t, r, ColProbationEnd)
        e  == Cell(t, r, ColExitDate)
        st == Cell(t, r, ColEmployeeStatus)
    IN  IF st = S("Departed")
        THEN IF ~IsNa(p) /\ ~IsNa(e) /\ e[2] < p[2]
             THEN S("Left During Probation") ELSE S("Completed Before Exit")
        ELSE IF ~IsNa(p) /\ p[2] <= 0 THEN S("Completed")
        ELSE IF ~IsNa(p) THEN S("In Probation") ELSE S("No Data")

\* the nested np.where of the probation status
ProbationOf(t, r) ==
    LET p  == Cell(t, r, ColProbationEnd)
        e  == Cell(t, r, ColExitDate)
        st == Cell(t, r, ColEmployeeStatus)
    IN  IF ~IsNa(p) /\ p[2] <= 0 THEN S("Completed")
        ELSE IF st = S("Departed")
        THEN IF ~IsNa(p) /\ ~IsNa(e) /\ e[2] < p[2]
             THEN S("Left During Probation") ELSE S("Completed Before Exit")
        ELSE IF ~IsNa(p) THEN S("In Probation") ELSE S("No Data")

\* The exception process_data ends with on table t (headers normalised),
\* or None.  pd.to_datetime of a duplicated label gets a DataFrame and
\* raises ValueError; the tenure and probation blocks index
\* df['Employee Status'] and df['Exit Date'] unconditionally (np.where
\* evaluates all of its arguments), a missing label is a KeyError.
ProcessError(t) ==
    IF \E i \in 1..Len(date_cols) : Dup(t, date_cols[i])
    THEN ValueError
    ELSE IF Has(t, ColJoinDate) \/ Has(t, ColProbationEnd)
    THEN IF ~Has(t, ColEmployeeStatus) THEN KeyError(ColEmployeeStatus)
         ELSE IF Dup(t, ColEmployeeStatus) THEN ValueError
         ELSE IF ~Has(t, ColExitDate) THEN KeyError(ColExitDate)
         ELSE None
    ELSE IF Dup(t, ColType) THEN ValueError
    ELSE None

StepAge(t) ==
    IF Has(t, ColBirthdayDate) THEN Assign(t, ColAge, LAMBDA r : AgeOf(t, r)) ELSE t

StepTenure(t) ==
    IF Has(t, ColJoinDate) THEN Assign(t, ColTenure, LAMBDA r : TenureOf(t, r)) ELSE t

StepJoinPeriods(t) ==
    IF Has(t, ColJoinDate)
    THEN LET a == Assign(t, ColJoinYear, LAMBDA r : dt_year(Cell(t, r, ColJoinDate)))
             b == Assign(a, ColJoinMonth, LAMBDA r : period_M(Cell(t, r, ColJoinDate)))
         IN  Assign(b, ColJoinQuarter, LAMBDA r : period_Q(Cell(t, r, ColJoinDate)))
    ELSE t

StepExitPeriods(t) ==
    IF Has(t, ColExitDate)
    THEN LET a == Assign(t, ColExitYear, LAMBDA r : dt_year(Cell(t, r, ColExitDate)))
         IN  Assign(a, ColExitMonth, LAMBDA r : period_M(Cell(t, r, ColExitDate)))
    ELSE t

StepProbation(t) ==
    IF Has(t, ColProbationEnd)
    THEN Assign(t, ColProbationCompleted, LAMBDA r : ProbationOf(t, r))
    ELSE t

StepEmploymentType(t) ==
    IF Has(t, ColType)
    THEN Assign(t, ColEmploymentType, LAMBDA r : fillna(Cell(t, r, ColType), S("Unknown")))
    ELSE Assign(t, ColEmploymentType, LAMBDA r : S("Unknown"))

StepCleanup(t) ==
    FillCol(FillCol(FillCol(t, ColVendor, S("Direct Hire")),
                    ColNationality, S("Unknown")),
            ColExitReasonList, S(""))

\* process_data after the header step
Derive(t) ==
    IF ProcessError(t) # None THEN Raise(ProcessError(t))
    ELSE Ok(StepCleanup(StepEmploymentType(StepProbation(StepExitPeriods(
             StepJoinPeriods(StepTenure(StepAge(ParseDates(t)))))))))

process_data(raw) == Derive([cols |-> NormalizeHeaders(raw.cols), rows |-> raw.rows])

---------------------------------------------------------------------------
(* calculate_kpis *)

\* an exact float: the fraction n/d (d > 0), or NaN
Q(n, d) == <<"q", n, d>>
QNaN == <<"nan", 0, 0>>
QIsNaN(x) == x[1] = "nan"
\* equality of two defined values (a zero denominator is a division by zero)
QEq(x, y) ==
    /\ ~QIsNaN(x) /\ ~QIsNaN(y)
    /\ x[3] > 0 /\ y[3] > 0
    /\ x[2] * y[3] = y[2] * x[3]
QAdd(x, y) == Q(x[2] * y[3] + y[2] * x[3], x[3] * y[3])

RECURSIVE SumSeq(_)
SumSeq(q) == IF q = <<>> THEN 0 ELSE Head(q) + SumSeq(Tail(q))

\* the numbers of column h, row by row
Numbers(t, h) == Tuple([r \in RowIds(t) |-> Cell(t, r, h)[2]])

\* Series.mean(): NaN on an empty series
Mean(q, scale) == IF q = <<>> THEN QNaN ELSE Q(SumSeq(q), scale * Len(q))

\* len(df[df[h] == v]); with a duplicated label the mask is a DataFrame and
\* df[mask] keeps every row
CountEq(t, h, v) ==
    IF Dup(t, h) THEN NRows(t)
    ELSE Cardinality({r \in RowIds(t) : Cell(t, r, h) = v})

\* (n / d * 100) if d > 0 else 0
Pct(n, d) == IF d > 0 THEN Q(n * 100, d) ELSE Q(0, 1)

\* the Employment Type strings of the model that
\* str.contains('Freelancer|freelancer|Contract', case=False) matches
ContractorLike == {"Freelancer", "freelancer", "FREELANCER", "Contract", "contract"}

PassedProbation == {S("Completed"), S("Completed Before Exit")}

kpi_active_lowercase(t) == CountEq(t, ColEmployeeStatus, S("active"))

kpi_active(t) == CountEq(t, ColEmployeeStatus, S("Active"))

kpi_departed_with_exit_date(t) ==
    IF Has(t, ColExitDate)
    THEN Cardinality({r \in RowIds(t) : ~IsNa(Cell(t, r, ColExitDate))})
    ELSE 0

kpi_departed(t) == CountEq(t, ColEmployeeStatus, S("Departed"))

kpi_avg_tenure_zero_on_empty(t) ==
    IF Has(t, ColTenure) /\ NRows(t) > 0 THEN Mean(Numbers(t, ColTenure), 10) ELSE Q(0, 1)

\* df['Tenure (Months)'].mean() if 'Tenure (Months)' in df.columns else 0
kpi_avg_tenure(t) ==
    IF Has(t, ColTenure) THEN Mean(Numbers(t, ColTenure), 10) ELSE Q(0, 1)

\* df[df['Age'] > 0]['Age'].mean() if 'Age' in df.columns else 0
kpi_avg_age(t) ==
    IF Has(t, ColAge)
    THEN Mean(Numbers(Subset(t, {r \in RowIds(t) : Cell(t, r, ColAge)[2] > 0}), ColAge), 1)
    ELSE Q(0, 1)

kpi_contractor_ratio_unguarded(t) ==
    IF Has(t, ColEmploymentType)
    THEN Q(Cardinality({r \in RowIds(t) :
                LET c == Cell(t, r, ColEmploymentType)
                IN  c[1] = "s" /\ c[2] \in ContractorLike}) * 100, NRows(t))
    ELSE Q(0, 1)

kpi_contractor_ratio(t) ==
    IF Has(t, ColEmploymentType)
    THEN Pct(Cardinality({r \in RowIds(t) :
                LET c == Cell(t, r, ColEmploymentType)
                IN  c[1] = "s" /\ c[2] \in ContractorLike}), NRows(t))
    ELSE Q(0, 1)

\* df['Nationality'].nunique() if 'Nationality' in df.columns else 0
kpi_nationality_count(t) ==
    IF Has(t, ColNationality)
    THEN Cardinality({Cell(t, r, ColNationality) : r \in RowIds(t)} \ {NaN})
    ELSE 0

kpi_gender_count(t, g) == IF Has(t, ColGender) THEN CountEq(t, ColGender, S(g)) ELSE 0

kpi_probation_pass_rate_over_all_records(t) ==
    IF Has(t, ColProbationCompleted)
    THEN Pct(Cardinality({r \in RowIds(t) :
                            Cell(t, r, ColProbationCompleted) \in PassedProbation}),
             NRows(t))
    ELSE Q(0, 1)

kpi_probation_pass_rate(t) ==
    IF Has(t, ColProbationCompleted)
    THEN LET prob_data == {r \in RowIds(t) : Cell(t, r, ColProbationCompleted) # S("No Data")}
             completed == {r \in prob_data : Cell(t, r, ColProbationCompleted) \in PassedProbation}
         IN  IF Cardinality(prob_data) > 0
             THEN Q(Cardinality(completed) * 100, Cardinality(prob_data))
             ELSE Q(0, 1)
    ELSE Q(0, 1)

kpi_growth_rate(t) ==
    IF Has(t, ColJoinYear)
    THEN LET hired_this_year == CountEq(t, ColJoinYear, N(current_year))
             hired_last_year == CountEq(t, ColJoinYear, N(current_year - 1))
         IN  IF hired_last_year > 0
             THEN Q((hired_this_year - hired_last_year) * 100, hired_last_year)
             ELSE Q(0, 1)
    ELSE Q(0, 1)

\* calculate_kpis(df); df['Employee Status'] is indexed unconditionally
calculate_kpis(t) ==
    IF ~Has(t, ColEmployeeStatus) THEN Raise(KeyError(ColEmployeeStatus))
    ELSE [ok |-> TRUE,
          total |-> NRows(t),
          active |-> kpi_active(t),
          departed |-> kpi_departed(t),
          attrition_rate |-> Pct(kpi_departed(t), NRows(t)),
          retention_rate |-> Pct(kpi_active(t), NRows(t)),
          avg_tenure |-> kpi_avg_tenure(t),
          avg_age |-> kpi_avg_age(t),
          contractor_ratio |-> kpi_contractor_ratio(t),
          nationality_count |-> kpi_nationality_count(t),
          gender_ratio |-> <<kpi_gender_count(t, "M"), kpi_gender_count(t, "F")>>,
          male_count |-> kpi_gender_count(t, "M"),
          female_count |-> kpi_gender_count(t, "F"),
          probation_pass_rate |-> kpi_probation_pass_rate(t),
          growth_rate |-> kpi_growth_rate(t)]

---------------------------------------------------------------------------
(* get_cohort_retention / get_manager_attrition.  Rounded results are kept *)
(* in tenths: a Retention Rate % of 75.0 is N(750), an Avg Tenure (Months) *)
(* of 12.8 is N(128).                                                      *)

\* pd.DataFrame(): no column, no row
EmptyFrame == [cols |-> <<>>, rows |-> <<>>]

\* (n / d).round(1) in tenths, halves to the even neighbour
RoundTenths(n, d) ==
    LET q == (n * 10) \div d
        m == (n * 10) % d
    IN  IF 2 * m > d \/ (2 * m = d /\ q % 2 = 1) THEN q + 1 ELSE q

\* the strings of the model in code point order
Collation ==
    <<"Alice", "Better Opportunity", "Bob", "E1", "N/A", "Personal">>

\* sort key of a group label or a mode candidate: a number by its value, a
\* string by its place in the code point order
SortKey(c) ==
    IF c[1] = "s" THEN CHOOSE i \in 1..Len(Collation) : Collation[i] = c[2] ELSE c[2]

\* the group labels in ascending order (groupby sorts its keys)
RECURSIVE SortCells(_)
SortCells(set) ==
    IF set = {} THEN <<>>
    ELSE LET least == CHOOSE x \in set : \A y \in set : SortKey(x) <= SortKey(y)
         IN  <<least>> \o SortCells(set \ {least})

\* groupby(h): the labels of the groups; records with a missing label are dropped
GroupKeys(t, rows, h) == SortCells({Cell(t, r, h) : r \in rows} \ {NaN})

\* one row of the cohort table: Total counts the non-null statuses
CohortRow(t, year) ==
    LET grp      == {r \in RowIds(t) : Cell(t, r, ColJoinYear) = year}
        total    == Cardinality({r \in grp : ~IsNa(Cell(t, r, ColEmployeeStatus))})
        active   == Cardinality({r \in grp : Cell(t, r, ColEmployeeStatus) = S("Active")})
        departed == Cardinality({r \in grp : Cell(t, r, ColEmployeeStatus) = S("Departed")})
    IN  <<year, N(total), N(active), N(departed),
          IF total = 0 THEN NaN ELSE N(RoundTenths(active * 100, total))>>

get_cohort_retention_keeps_every_year(t) ==
    IF ~Has(t, ColJoinYear) THEN Ok(EmptyFrame)
    ELSE IF ~Has(t, ColEmployeeStatus) THEN Raise(KeyError(ColEmployeeStatus))
    ELSE LET years == GroupKeys(t, RowIds(t), ColJoinYear)
         IN  Ok([cols |-> <<ColJoinYear, ColTotal, ColActive, ColDeparted, ColRetentionRate>>,
                 rows |-> Tuple([i \in 1..Len(years) |-> CohortRow(t, years[i])])])

get_cohort_retention(t) ==
    IF ~Has(t, ColJoinYear) THEN Ok(EmptyFrame)
    ELSE IF ~Has(t, ColEmployeeStatus) THEN Raise(KeyError(ColEmployeeStatus))
    ELSE LET years == GroupKeys(t, RowIds(t), ColJoinYear)
             kept  == PickSeq(years, {i \in 1..Len(years) : years[i][2] > 2000}, 1)
         IN  Ok([cols |-> <<ColJoinYear, ColTotal, ColActive, ColDeparted, ColRetentionRate>>,
                 rows |-> Tuple([i \in 1..Len(kept) |-> CohortRow(t, kept[i])])])

\* the most frequent value that comes first in the record order
TopReason_first_encountered(t, grp) ==
    LET vals   == {Cell(t, r, ColExitReasonCategory) : r \in grp} \ {NaN}
        freq(v) == Cardinality({r \in grp : Cell(t, r, ColExitReasonCategory) = v})
        modes  == {v \in vals : \A w \in vals : freq(w) <= freq(v)}
        first  == CHOOSE r \in grp :
                      /\ Cell(t, r, ColExitReasonCategory) \in modes
                      /\ \A q \in grp : Cell(t, q, ColExitReasonCategory) \in modes => r <= q
    IN  IF vals = {} THEN S("N/A") ELSE Cell(t, first, ColExitReasonCategory)

\* x.mode().iloc[0] if len(x.mode()) > 0 else 'N/A': mode() drops missing
\* values and returns the most frequent ones in sorted order
TopReason(t, grp) ==
    LET vals   == {Cell(t, r, ColExitReasonCategory) : r \in grp} \ {NaN}
        freq(v) == Cardinality({r \in grp : Cell(t, r, ColExitReasonCategory) = v})
        modes  == {v \in vals : \A w \in vals : freq(w) <= freq(v)}
    IN  IF vals = {} THEN S("N/A") ELSE SortCells(modes)[1]

\* one row of the manager table: Departures counts the non-null Full Names
ManagerRow(t, managed, manager) ==
    LET grp == {r \in managed : Cell(t, r, ColManager) = manager}
        ids == SortCells({N(r) : r \in grp})
    IN  <<manager,
          N(Cardinality({r \in grp : ~IsNa(Cell(t, r, ColFullName))})),
          N(RoundTenths(SumSeq(Tuple([i \in 1..Len(ids) |->
                                        Cell(t, ids[i][2], ColTenure)[2]])),
                        10 * Len(ids))),
          TopReason(t, grp)>>

\* sort_values('Departures', ascending=False): equal counts stay in group order
RECURSIVE SortByDepartures(_)
SortByDepartures(rows) ==
    IF rows = <<>> THEN <<>>
    ELSE LET first == CHOOSE i \in 1..Len(rows) :
                         /\ \A j \in 1..Len(rows) : rows[j][2][2] <= rows[i][2][2]
                         /\ \A j \in 1..(i - 1) : rows[j][2][2] < rows[i][2][2]
         IN  <<rows[first]>> \o SortByDepartures(PickSeq(rows, (1..Len(rows)) \ {first}, 1))

\* the columns the named aggregation reads, in the order of the error message
AggregatedColumns == <<ColExitReasonCategory, ColFullName, ColTenure>>

MissingAggregated(t) ==
    PickSeq(AggregatedColumns,
            {i \in 1..Len(AggregatedColumns) : ~Has(t, AggregatedColumns[i])}, 1)

ManagerTable(t, managed) ==
    LET managers == GroupKeys(t, managed, ColManager)
    IN  [cols |-> <<ColManagerCRM, ColDepartures, ColAvgTenure, ColTopExitReason>>,
         rows |-> SortByDepartures(
                      Tuple([i \in 1..Len(managers) |-> ManagerRow(t, managed, managers[i])]))]

get_manager_attrition(t) ==
    IF ~Has(t, ColManager) THEN Ok(EmptyFrame)
    ELSE IF ~Has(t, ColEmployeeStatus) THEN Raise(KeyError(ColEmployeeStatus))
    ELSE LET departed == {r \in RowIds(t) : Cell(t, r, ColEmployeeStatus) = S("Departed")}
         IN  IF departed = {} THEN Ok(EmptyFrame)
             ELSE IF MissingAggregated(t) # <<>> THEN Raise(KeyError(MissingAggregated(t)[1]))
             ELSE Ok(ManagerTable(t, {r \in departed : ~IsNa(Cell(t, r, ColManager))}))

---------------------------------------------------------------------------
(* save_to_excel / load_excel *)

\* DataFrame.to_excel(index=False): a missing value and an empty string are
\* both written as an empty cell
to_excel_cell(c) == IF c = S("") THEN NaN ELSE c

to_excel(t) ==
    [cols |-> t.cols,
     rows |-> Tuple([r \in RowIds(t) |->
                 Tuple([i \in 1..Len(t.cols) |-> to_excel_cell(t.rows[r][i])])])]

IsBlankRow(row) == \A i \in 1..Len(row) : IsNa(row[i])

\* pd.read_excel: empty cells are NaN; the rows after the last row that
\* holds a value are not part of the sheet's data
LastDataRow(f) ==
    IF \E r \in RowIds(f) : ~IsBlankRow(f.rows[r])
    THEN CHOOSE r \in RowIds(f) :
            /\ ~IsBlankRow(f.rows[r])
            /\ \A q \in RowIds(f) : q > r => IsBlankRow(f.rows[q])
    ELSE 0

\* pd.read_excel makes the labels unique: the k-th repetition of a label
\* gets the suffix ".k"
DupSuffix == <<".1", ".2", ".3", ".4">>

Mangle(cols) ==
    Tuple([i \in 1..Len(cols) |->
        LET k == Cardinality({j \in 1..(i - 1) : cols[j] = cols[i]})
        IN  IF k = 0 THEN cols[i] ELSE Append(cols[i], DupSuffix[k])])

read_excel(f) == [cols |-> Mangle(f.cols), rows |-> SubSeq(f.rows, 1, LastDataRow(f))]

save_to_excel(t) ==
    to_excel(DropCols([cols |-> RenameCols(t.cols, reverse_map), rows |-> t.rows],
                      calc_cols))

load_excel(f) == process_data(read_excel(f))

---------------------------------------------------------------------------
(* Input tables of the pipeline *)

RECURSIVE Product(_, _)
Product(dom, k) ==
    IF k = 0 THEN {<<>>}
    ELSE {Append(r, v) : r \in Product(dom, k - 1), v \in dom[k]}

\* every table of at most n rows over the columns and cell domains of sc
TablesUpTo(sc, n) ==
    {[cols |-> sc.cols, rows |-> rs] :
        rs \in UNION {[1..m -> Product(sc.dom, Len(sc.cols))] : m \in 0..n}}

TablesOf(sc) == TablesUpTo(sc, MaxRows)

\* probation and tenure: every combination of status, probation end and exit
ProbationInputs ==
    TablesOf([cols |-> <<ColEmployeeStatus, RawJoinDate, RawExitDate, ColProbationEnd>>,
              dom  |-> <<{S("Active"), S("Departed"), NaN},
                         {D(0 - 400)},
                         {NaN, D(0 - 10)},
                         {NaN, D(0 - 30), D(30)}>>])

\* categorical fields with missing and empty-string values, blank rows
TextInputs ==
    TablesOf([cols |-> <<ColEmployeeStatus, ColExitType>>,
              dom  |-> <<{S("Active"), S("Departed"), NaN},
                         {S(""), S("Resigned"), NaN}>>])

\* the numeric KPI inputs: two join years, a birthday and an unparseable one
KpiInputs ==
    TablesOf([cols |-> <<ColEmployeeStatus, ColGender, KeyJoinDate, KeyExitDate, ColBirthdayDate>>,
              dom  |-> <<{S("Active"), S("Departed")},
                         {S("M"), S("F")},
                         {D(0 - 400), D(0 - 30)},
                         {D(0 - 10)},
                         {S("n/a"), D(0 - 11000)}>>])

\* tenure: missing join or exit dates, an exit before and after the join
TenureInputs ==
    TablesOf([cols |-> <<ColEmployeeStatus, RawJoinDate, RawExitDate>>,
              dom  |-> <<{S("Active"), S("Departed")},
                         {NaN, D(0 - 400), D(0 - 5)},
                         {NaN, D(0 - 10)}>>])

\* age: a missing, an unparseable, a past and a future birthday
AgeInputs ==
    TablesOf([cols |-> <<ColEmployeeStatus, ColBirthdayDate>>,
              dom  |-> <<{S("Active")},
                         {NaN, S("n/a"), D(0 - 12783), D(0 - 200), D(400)}>>])

\* cohorts: join years 2025 and 1999, up to three records in a cohort
CohortInputs ==
    TablesUpTo([cols |-> <<ColEmployeeStatus, RawJoinDate, RawExitDate>>,
                dom  |-> <<{S("Active"), S("Departed")},
                           {D(0 - 400), D(0 - 10000)},
                           {D(0 - 10)}>>],
               MaxRows + 1)

\* managers: two managers and records without one, every column the
\* aggregation reads
ManagerInputs ==
    TablesUpTo([cols |-> <<ColEmployeeStatus, ColFullName, ColManager, RawJoinDate,
                           RawExitDate, ColExitReasonCategory>>,
                dom  |-> <<{S("Active"), S("Departed")},
                           {S("E1")},
                           {NaN, S("Alice"), S("Bob")},
                           {D(0 - 400)},
                           {D(0 - 10)},
                           {S("Personal")}>>],
               MaxRows + 1)

\* the manager column next to every choice of the columns the aggregation
\* reads; a record may lack its name
ManagerSources ==
    [cols |-> <<ColFullName, RawJoinDate, RawExitDate, ColExitReasonCategory>>,
     dom  |-> <<{S("E1"), NaN}, {D(0 - 400)}, {D(0 - 10)}, {S("Personal")}>>]

ManagerPresenceInputs ==
    UNION {TablesOf([cols |-> <<ColEmployeeStatus, ColManager>>
                                \o PickSeq(ManagerSources.cols, P, 1),
                     dom  |-> <<{S("Active"), S("Departed")}, {NaN, S("Alice")}>>
                                \o PickSeq(ManagerSources.dom, P, 1)]) :
              P \in {{}, {1}, {2, 3}, {4}, {1, 2, 3}, {1, 4}, {2, 3, 4}, {1, 2, 3, 4}}}

\* every choice of optional source columns next to Employee Status
OptionalSources ==
    [cols |-> <<ColBirthdayDate, RawJoinDate, RawExitDate, ColProbationEnd, ColType,
                ColNationality>>,
     dom  |-> <<{D(0 - 11000)}, {D(0 - 400)}, {D(0 - 10)}, {D(30)}, {S("Freelancer")},
                {NaN, S("")}>>]

PresenceInputs ==
    UNION {TablesOf([cols |-> <<ColEmployeeStatus>> \o PickSeq(OptionalSources.cols, P, 1),
                     dom  |-> <<{S("Active"), S("Departed")}>>
                                \o PickSeq(OptionalSources.dom, P, 1)]) :
              P \in SUBSET (1..Len(OptionalSources.cols))}

\* raw headers: legacy spellings with newline or blank, canonical names,
\* padded labels and a header the rename map does not know
HeaderPool ==
    {RawJoinDate, KeyJoinDate, ColJoinDate, RawExitDate, ColEmployeeStatus,
     ColGender, <<" ", "Gender", " ">>, <<"Notes", "\n", "HR">>}

\* pd.read_excel never returns two equal labels
HeaderLists ==
    {h \in UNION {[1..n -> HeaderPool] : n \in 0..MaxCols} :
        \A i, j \in 1..Len(h) : i # j => h[i] # h[j]}

HeaderCell(h) ==
    CASE NormalizeHeaders(<<h>>)[1] \in {ColJoinDate, ColExitDate} -> D(0 - 400)
      [] NormalizeHeaders(<<h>>)[1] = ColEmployeeStatus -> S("Active")
      [] NormalizeHeaders(<<h>>)[1] = ColGender -> S("M")
      [] OTHER -> S("x")

HeaderInputs ==
    UNION {{[cols |-> h, rows |-> <<>>]}
              \cup (IF h = <<>> THEN {}
                    ELSE {[cols |-> h, rows |-> <<Tuple([i \in 1..Len(h) |-> HeaderCell(h[i])])>>]}) :
              h \in HeaderLists}

PipelineInputs ==
    ProbationInputs \cup TextInputs \cup KpiInputs \cup TenureInputs \cup AgeInputs
        \cup CohortInputs \cup ManagerInputs \cup ManagerPresenceInputs
        \cup PresenceInputs \cup HeaderInputs

---------------------------------------------------------------------------
(* The pipeline on one input table: process_data, then calculate_kpis on a *)
(* record subset, get_cohort_retention or get_manager_attrition on the     *)
(* processed records, or save_to_excel followed by load_excel.             *)

PipelineInit ==
    /\ uploaded \in PipelineInputs
    /\ norm = None
    /\ load = None
    /\ filtered = None
    /\ kpis = None
    /\ disk = NoFile
    /\ reloaded = None
    /\ stage = "raw"
    /\ session = None
    /\ hr_file_name = None
    /\ df = None
    /\ msg = None
    /\ note = ""
    /\ del_confirm = FALSE
    /\ status_filter = "All"
    /\ other = NoFile
    /\ cohort = None
    /\ manager_data = None
    /\ name_col = None
    /\ turnover = None
    /\ split = None
    /\ role = None

ProcessData ==
    /\ stage = "raw"
    /\ norm' = NormalizeHeaders(uploaded.cols)
    /\ load' = process_data(uploaded)
    /\ stage' = "processed"
    /\ UNCHANGED <<uploaded, filtered, kpis, disk, reloaded>>
    /\ UNCHANGED <<appVars, reportVars, role>>

CalculateKpis ==
    /\ stage = "processed"
    /\ IsOk(load)
    /\ \E keep \in SUBSET RowIds(load.df) :
          /\ filtered' = Subset(load.df, keep)
          /\ kpis' = calculate_kpis(Subset(load.df, keep))
    /\ stage' = "kpis"
    /\ UNCHANGED <<uploaded, norm, load, disk, reloaded>>
    /\ UNCHANGED <<appVars, reportVars, role>>

SaveToExcel ==
    /\ stage = "processed"
    /\ IsOk(load)
    /\ disk' = save_to_excel(load.df)
    /\ stage' = "saved"
    /\ UNCHANGED <<uploaded, norm, load, filtered, kpis, reloaded>>
    /\ UNCHANGED <<appVars, reportVars, role>>

LoadExcel ==
    /\ stage = "saved"
    /\ reloaded' = load_excel(disk)
    /\ stage' = "reloaded"
    /\ UNCHANGED <<uploaded, norm, load, filtered, kpis, disk>>
    /\ UNCHANGED <<appVars, reportVars, role>>

\* the tenure and retention page: the cohort table of the processed records
CohortRetention ==
    /\ stage = "processed"
    /\ IsOk(load)
    /\ filtered' = load.df
    /\ cohort' = get_cohort_retention(load.df)
    /\ stage' = "cohort"
    /\ UNCHANGED <<uploaded, norm, load, kpis, disk, reloaded, manager_data>>
    /\ UNCHANGED <<name_col, turnover, split>>
    /\ UNCHANGED <<appVars, role>>

\* the attrition page: the manager table of the processed records
ManagerAttrition ==
    /\ stage = "processed"
    /\ IsOk(load)
    /\ filtered' = load.df
    /\ manager_data' = get_manager_attrition(load.df)
    /\ stage' = "managers"
    /\ UNCHANGED <<uploaded, norm, load, kpis, disk, reloaded, cohort>>
    /\ UNCHANGED <<name_col, turnover, split>>
    /\ UNCHANGED <<appVars, role>>

PipelineNext ==
    \/ ProcessData
    \/ CalculateKpis
    \/ CohortRetention
    \/ ManagerAttrition
    \/ SaveToExcel
    \/ LoadExcel

SpecPipeline == PipelineInit /\ [][PipelineNext]_vars

---------------------------------------------------------------------------
(* The dashboard: one script run per user interaction *)

Msg(kind, detail) == [kind |-> kind, detail |-> detail]

\* missing = [c for c in REQUIRED_COLUMNS if c not in df.columns]
Missing(t) ==
    PickSeq(REQUIRED_COLUMNS,
            {i \in 1..Len(REQUIRED_COLUMNS) : ~Has(t, REQUIRED_COLUMNS[i])}, 1)

\* the data loading block with the table cached before the required
\* columns are looked for
Validate_caches_before_validating(ld, sess) ==
    IF ~IsOk(ld)
    THEN [load |-> ld, df |-> None, session |-> sess,
          msg |-> Msg("Error loading file", ld.err)]
    ELSE IF Missing(ld.df) # <<>>
    THEN [load |-> ld, df |-> None, session |-> ld.df,
          msg |-> Msg("Missing required columns", Missing(ld.df))]
    ELSE [load |-> ld, df |-> ld.df, session |-> ld.df,
          msg |-> Msg("Loaded", NRows(ld.df))]

\* the data loading block after load_excel returned or raised ld
Validate(ld, sess) ==
    IF ~IsOk(ld)
    THEN [load |-> ld, df |-> None, session |-> sess,
          msg |-> Msg("Error loading file", ld.err)]
    ELSE IF Missing(ld.df) # <<>>
    THEN [load |-> ld, df |-> None, session |-> sess,
          msg |-> Msg("Missing required columns", Missing(ld.df))]
    ELSE [load |-> ld, df |-> ld.df, session |-> ld.df,
          msg |-> Msg("Loaded", NRows(ld.df))]

\* the data loading block: the uploaded file, else the session cache
DataLoading(file, sess) ==
    [file |-> file]
    @@ (IF file # NoFile THEN Validate(load_excel(file), sess)
        ELSE IF sess # None
        THEN [load |-> None, df |-> sess, session |-> sess,
              msg |-> Msg("Using", NRows(sess))]
        ELSE [load |-> None, df |-> None, session |-> sess,
              msg |-> Msg("Please upload the Master Sheet", <<>>)])

\* df[h].dropna().unique()
Unique(t, h) == {Cell(t, r, h) : r \in RowIds(t)} \ {NaN}

\* the value of a select box over the options: None when there is none
Options(vals) == IF vals = {} THEN {NaN} ELSE vals

\* the sidebar filters with the date range and the departments at their
\* defaults and the Employee Status select box at sf
ApplyFilters(t, sf) ==
    LET inRange == IF Has(t, ColJoinDate)
                   THEN {r \in RowIds(t) : ~IsNa(Cell(t, r, ColJoinDate))}
                   ELSE RowIds(t)
        inDept  == IF Unique(t, ColDepartment) # {}
                   THEN {r \in RowIds(t) : ~IsNa(Cell(t, r, ColDepartment))}
                   ELSE RowIds(t)
        inStatus == IF sf # "All"
                    THEN {r \in RowIds(t) : Cell(t, r, ColEmployeeStatus) = S(sf)}
                    ELSE RowIds(t)
    IN  Subset(t, inRange \cap inDept \cap inStatus)

\* the KPI section with the filter result bound to df itself
KpiSection_rebinds_df(d, f) ==
    IF NRows(f) = 0
    THEN [d EXCEPT !.df = f] @@ [filtered |-> f, kpis |-> None, stage |-> "no match"]
    ELSE [d EXCEPT !.df = f]
         @@ [filtered |-> f, kpis |-> calculate_kpis(f), stage |-> "rendered"]

\* the KPI section on the filtered table f
KpiSection(d, f) ==
    IF NRows(f) = 0
    THEN d @@ [filtered |-> f, kpis |-> None, stage |-> "no match"]
    ELSE d @@ [filtered |-> f, kpis |-> calculate_kpis(f), stage |-> "rendered"]

\* the script below the data loading block, which left d
Sidebar(d, sf) ==
    IF d.df = None
    THEN d @@ [filtered |-> None, kpis |-> None, stage |-> "no data"]
    ELSE IF Has(d.df, ColJoinDate) /\ Unique(d.df, ColJoinDate) = {}
    THEN d @@ [filtered |-> None, kpis |-> None, stage |-> "exception"]
    ELSE KpiSection(d, ApplyFilters(d.df, sf))

\* the script from the top to the KPI section
RunScript(file, sess, sf) == Sidebar(DataLoading(file, sess), sf)

\* the columns and the last row of pd.concat
ConcatRow(t, cols, new_row) ==
    [cols |-> cols,
     rows |-> Tuple([r \in RowIds(t) |->
                        t.rows[r] \o Tuple([i \in 1..(Len(cols) - Len(t.cols)) |-> NaN])])
              \o <<Tuple([i \in 1..Len(cols) |->
                     IF \E k \in 1..Len(new_row) : new_row[k][1] = cols[i]
                     THEN new_row[CHOOSE k \in 1..Len(new_row) : new_row[k][1] = cols[i]][2]
                     ELSE NaN])>>]

\* pd.concat([df, pd.DataFrame([new_row])], ignore_index=True); new_row is a
\* sequence of <<key, value>> pairs
Concat(t, new_row) ==
    ConcatRow(t,
              t.cols \o PickSeq(Tuple([i \in 1..Len(new_row) |-> new_row[i][1]]),
                                {i \in 1..Len(new_row) : ~Has(t, new_row[i][1])}, 1),
              new_row)

\* df.at[r, h] = v for every <<h, v>> of updates, in order; the edit form
\* writes required columns only, so every h is a column of df
At(t, r, updates) ==
    LET hit(h) == {u \in 1..Len(updates) : updates[u][1] = h}
        last(h) == CHOOSE u \in hit(h) : \A w \in hit(h) : w <= u
    IN  [cols |-> t.cols,
         rows |-> Tuple([q \in RowIds(t) |->
                     IF q # r THEN t.rows[q]
                     ELSE Tuple([i \in 1..Len(t.cols) |->
                             IF hit(t.cols[i]) = {} THEN t.rows[q][i]
                             ELSE updates[last(t.cols[i])][2]])])]

\* str(value) of a text_input default
Str(c) == IF IsNa(c) THEN S("nan") ELSE c

\* the master sheet of the organisation
MasterSheet ==
    [cols |-> <<ColFullName, ColGender, ColDepartment, ColPosition, ColEmployeeStatus,
                ColExitType, RawJoinDate, RawExitDate, ColBirthdayDate,
                ColProbationEnd, ColType, ColNationality>>,
     rows |-> << <<S("Omar"), S("M"), S("HR"), S("Analyst"), S("Active"), NaN,
                   D(0 - 400), NaN, D(0 - 11000), D(0 - 300), S("Full time"),
                   S("Egyptian")>> >>]

OptionalColumns == <<RawJoinDate, RawExitDate, ColProbationEnd>>

SheetCell(h) ==
    CASE h \in {RawJoinDate, RawExitDate, ColProbationEnd} -> D(0 - 400)
      [] h = ColEmployeeStatus -> S("Active")
      [] h = ColGender -> S("F")
      [] h = ColDepartment -> S("IT")
      [] h = ColPosition -> S("Engineer")
      [] h = ColExitType -> NaN
      [] OTHER -> S("Sara")

\* one-record workbooks with every choice of required and optional columns
OtherSheets ==
    {LET cols == <<ColFullName>> \o PickSeq(REQUIRED_COLUMNS, R, 1)
                     \o PickSeq(OptionalColumns, O, 1)
     IN  [cols |-> cols, rows |-> <<Tuple([i \in 1..Len(cols) |-> SheetCell(cols[i])])>>] :
        R \in SUBSET (1..Len(REQUIRED_COLUMNS)), O \in SUBSET (1..Len(OptionalColumns))}

\* the workbooks that hold every required column
CompleteSheets == {f \in OtherSheets : Missing(read_excel(f)) = <<>>}

\* the role labels of the access control; no statement of app.py or of the
\* pages reads the role of the user
Roles == {"viewer", "editor", "admin"}

\* the page before the first upload; the user has one of the roles and
\* holds the master sheet and one workbook of sheets
FirstRun(sheets, roles) ==
    /\ uploaded = NoFile
    /\ other \in sheets
    /\ role \in roles
    /\ cohort = None
    /\ manager_data = None
    /\ name_col = None
    /\ turnover = None
    /\ split = None
    /\ session = None
    /\ hr_file_name = None
    /\ df = None
    /\ load = None
    /\ msg = Msg("Please upload the Master Sheet", <<>>)
    /\ note = ""
    /\ del_confirm = FALSE
    /\ status_filter = "All"
    /\ filtered = None
    /\ kpis = None
    /\ disk = NoFile
    /\ stage = "no data"
    /\ norm = None
    /\ reloaded = None

Init == FirstRun(CompleteSheets, {"admin"})

\* uploaded_file.name
FileName(f) == IF f = MasterSheet THEN "Master.xlsx" ELSE "Team.xlsx"

\* what the page shows once the script run ends; the file name is cached
\* in the branch that shows the Loaded message
Show(run) ==
    /\ load' = run.load
    /\ df' = run.df
    /\ session' = run.session
    /\ hr_file_name' = IF run.msg.kind = "Loaded" THEN FileName(run.file)
                       ELSE hr_file_name
    /\ msg' = run.msg
    /\ filtered' = run.filtered
    /\ kpis' = run.kpis
    /\ stage' = run.stage

\* one run of the script
Rerun(file, sess, sf) == \E run \in {RunScript(file, sess, sf)} : Show(run)

\* the user puts a workbook into the upload widget
Upload ==
    \E f \in {MasterSheet, other} :
        /\ uploaded' = f
        /\ Rerun(f, session, status_filter)
        /\ note' = ""
        /\ UNCHANGED <<status_filter, disk, other, norm, reloaded, reportVars, role>>
        /\ UNCHANGED del_confirm

\* the user removes the workbook from the upload widget
ClearUpload ==
    /\ uploaded # NoFile
    /\ uploaded' = NoFile
    /\ Rerun(NoFile, session, status_filter)
    /\ note' = ""
    /\ UNCHANGED <<status_filter, disk, other, norm, reloaded, reportVars, role>>
    /\ UNCHANGED del_confirm

\* the user picks a value of the Employee Status select box
SelectStatus ==
    /\ stage \in {"no match", "rendered"}
    /\ \E sf \in {"All", "Active", "Departed"} :
          /\ status_filter' = sf
          /\ Rerun(uploaded, session, sf)
    /\ note' = ""
    /\ UNCHANGED <<uploaded, disk, other, norm, reloaded, reportVars, role>>
    /\ UNCHANGED del_confirm

\* the inputs of the add form, the other fields at their defaults
AddForms ==
    {[name |-> "", status |-> "Active", exit_date |-> NaN, exit_type |-> ""],
     [name |-> "Nada", status |-> "Active", exit_date |-> NaN, exit_type |-> ""],
     [name |-> "Nada", status |-> "Departed", exit_date |-> NaN, exit_type |-> "Resigned"],
     [name |-> "Nada", status |-> "Departed", exit_date |-> D(0 - 10), exit_type |-> "Resigned"],
     [name |-> "Nada", status |-> "Active", exit_date |-> D(0 - 10), exit_type |-> "Resigned"]}

new_row(form, dept, pos, type) ==
    << <<ColFullName, S(form.name)>>, <<ColGender, S("M")>>,
       <<ColBirthdayDate, D(0 - 11630)>>, <<ColNationality, S("")>>,
       <<ColDepartment, dept>>, <<ColPosition, pos>>,
       <<ColEmployeeStatus, S(form.status)>>, <<ColJoinDate, D(0)>>,
       <<ColType, type>> >>
      \o (IF IsNa(form.exit_date) THEN <<>> ELSE << <<ColExitDate, form.exit_date>> >>)
      \o (IF form.exit_type = "" THEN <<>> ELSE << <<ColExitType, S(form.exit_type)>> >>)

\* new_row of src/pages/edit_data.py: the type is stored under the label of
\* the derived column
new_row_of_pages(form, dept, pos, type) ==
    << <<ColFullName, S(form.name)>>, <<ColGender, S("M")>>,
       <<ColBirthdayDate, D(0 - 11630)>>, <<ColNationality, S("")>>,
       <<ColDepartment, dept>>, <<ColPosition, pos>>,
       <<ColEmployeeStatus, S(form.status)>>, <<ColJoinDate, D(0)>>,
       <<ColEmploymentType, type>> >>
      \o (IF IsNa(form.exit_date) THEN <<>> ELSE << <<ColExitDate, form.exit_date>> >>)
      \o (IF form.exit_type = "" THEN <<>> ELSE << <<ColExitType, S(form.exit_type)>> >>)

\* the try block around save_to_excel(table, DATA_FILE): on success the
\* script is run again with the session cache sess, otherwise the page of
\* this run stays
SaveOrError(table, saved, run, sess) ==
    IF saved
    THEN /\ disk' = save_to_excel(table)
         /\ note' = ""
         /\ Rerun(uploaded, sess, status_filter)
    ELSE /\ note' = "Error saving"
         /\ Show(run)
         /\ UNCHANGED disk

\* Add New Employee: the form is submitted
AddEmployee ==
    /\ stage = "rendered"
    /\ \E form \in AddForms, saved \in BOOLEAN,
          run \in {RunScript(uploaded, session, status_filter)} :
          \E dept \in Options(Unique(run.df, ColDepartment)),
             pos \in Options(Unique(run.df, ColPosition)),
             type \in IF Has(run.df, ColEmploymentType)
                      THEN Options(Unique(run.df, ColEmploymentType))
                      ELSE {S("Full time")} :
             IF form.name = ""
             THEN /\ note' = "Full Name is required."
                  /\ Show(run)
                  /\ UNCHANGED disk
             ELSE IF form.status = "Departed" /\ IsNa(form.exit_date)
             THEN /\ note' = "Exit Date is required for departed employees."
                  /\ Show(run)
                  /\ UNCHANGED disk
             ELSE SaveOrError(Concat(run.df, new_row(form, dept, pos, type)),
                              saved, run, run.session)
    /\ del_confirm' = FALSE
    /\ UNCHANGED <<uploaded, status_filter, other, norm, reloaded, reportVars, role>>

\* the records the name search of the edit tab can find
Matches(t) == {r \in RowIds(t) : Cell(t, r, ColFullName)[1] = "s"}

\* the inputs of the edit form, the other fields at their defaults
EditForms ==
    {[status |-> "Active", exit_type |-> ""],
     [status |-> "Departed", exit_type |-> "Resigned"]}

\* Edit Existing: the form is submitted; df.at writes into the table the
\* session cache holds
EditExisting ==
    /\ stage = "rendered"
    /\ Has(df, ColFullName)
    /\ \E form \in EditForms, saved \in BOOLEAN,
          run \in {RunScript(uploaded, session, status_filter)} :
          \E emp_idx \in Matches(run.df),
             edit_dept \in Options(Unique(run.df, ColDepartment)) :
             \E edited \in {At(run.df, emp_idx,
                               << <<ColDepartment, edit_dept>>,
                                  <<ColPosition, Str(Cell(run.df, emp_idx, ColPosition))>>,
                                  <<ColEmployeeStatus, S(form.status)>> >>
                               \o (IF form.exit_type = "" THEN <<>>
                                   ELSE << <<ColExitType, S(form.exit_type)>> >>))} :
                SaveOrError(edited, saved,
                            [run EXCEPT !.df = edited, !.session = edited], edited)
    /\ del_confirm' = FALSE
    /\ UNCHANGED <<uploaded, status_filter, other, norm, reloaded, reportVars, role>>

\* Delete Record with a button that is enabled whatever the checkbox holds
DeleteRecord_without_confirmation ==
    /\ stage = "rendered"
    /\ Has(df, ColFullName)
    /\ \E confirm \in BOOLEAN, saved \in BOOLEAN,
          run \in {RunScript(uploaded, session, status_filter)} :
          \E del_idx \in Matches(run.df) :
             /\ del_confirm' = confirm
             /\ SaveOrError(Subset(run.df, RowIds(run.df) \ {del_idx}), saved, run,
                            run.session)
    /\ UNCHANGED <<uploaded, status_filter, other, norm, reloaded, reportVars, role>>

\* Delete Record: a record is selected, the confirmation checkbox is set or
\* cleared and, the button being disabled while the box is unchecked, the
\* Delete button is pressed only with the box checked
DeleteRecord ==
    /\ stage = "rendered"
    /\ Has(df, ColFullName)
    /\ \E confirm \in BOOLEAN, saved \in BOOLEAN,
          run \in {RunScript(uploaded, session, status_filter)} :
          \E del_idx \in Matches(run.df) :
             /\ del_confirm' = confirm
             /\ IF confirm
                THEN SaveOrError(Subset(run.df, RowIds(run.df) \ {del_idx}), saved, run,
                                 run.session)
                ELSE /\ note' = ""
                     /\ Show(run)
                     /\ UNCHANGED disk
    /\ UNCHANGED <<uploaded, status_filter, other, norm, reloaded, reportVars, role>>

Next ==
    \/ Upload
    \/ ClearUpload
    \/ SelectStatus
    \/ AddEmployee
    \/ EditExisting
    \/ DeleteRecord

Spec == Init /\ [][Next]_vars

\* uploads alone, of workbooks with and without the required columns
UploadInit == FirstRun(OtherSheets, {"admin"})

UploadNext == Upload \/ ClearUpload \/ SelectStatus

SpecUpload == UploadInit /\ [][UploadNext]_vars

\* the dashboard in front of a user of each role, who holds the workbook
\* with every optional column
RoleSheets ==
    {f \in CompleteSheets :
        Len(f.cols) = 1 + Len(REQUIRED_COLUMNS) + Len(OptionalColumns)}

RolesInit == FirstRun(RoleSheets, Roles)

SpecRoles == RolesInit /\ [][Next]_vars

\* a workbook of two records, one Departed and one Active
TeamSheet ==
    [cols |-> MasterSheet.cols,
     rows |-> << <<S("Sara"), S("F"), S("IT"), S("Engineer"), S("Departed"),
                   S("Resigned"), D(0 - 400), D(0 - 10), D(0 - 12000), D(0 - 300),
                   S("Full time"), S("Egyptian")>>,
                 <<S("Ali"), S("M"), S("IT"), S("Engineer"), S("Active"), NaN,
                   D(0 - 200), NaN, D(0 - 9000), D(0 - 100), S("Full time"),
                   S("Egyptian")>> >>]

\* the dashboard in front of a user who holds the two-record workbook
TeamInit == FirstRun({TeamSheet}, {"admin"})

SpecTeam == TeamInit /\ [][Next]_vars

\* a workbook of two records, one of them without a join date
GapSheet ==
    [cols |-> MasterSheet.cols,
     rows |-> << <<S("Mona"), S("F"), S("IT"), S("Engineer"), S("Active"), NaN,
                   NaN, NaN, D(0 - 12000), D(0 - 300), S("Full time"),
                   S("Egyptian")>>,
                 <<S("Ali"), S("M"), S("IT"), S("Engineer"), S("Active"), NaN,
                   D(0 - 200), NaN, D(0 - 9000), D(0 - 100), S("Full time"),
                   S("Egyptian")>> >>]

\* Reset All Filters: the keys it pops from the session state belong to no
\* widget (the filter widgets are created without a key), so every widget
\* keeps its value in the run st.rerun() starts
ResetAllFilters ==
    /\ stage \in {"exception", "no match", "rendered"}
    /\ Rerun(uploaded, session, status_filter)
    /\ note' = ""
    /\ UNCHANGED <<uploaded, status_filter, disk, other, norm, reloaded, reportVars, role>>
    /\ UNCHANGED del_confirm

GapsInit == FirstRun({GapSheet}, {"admin"})

GapsNext == Next \/ ResetAllFilters

SpecGaps == GapsInit /\ [][GapsNext]_vars

---------------------------------------------------------------------------
(* The helpers of the pages: detect_name_column (config.py) *)

ColBankName == <<"Bank", " ", "Name">>

\* str.lower() of one word of a header
str_lower(w) ==
    CASE w \in {"Full", "FULL", "full"} -> "full"
      [] w \in {"Name", "NAME", "name"} -> "name"
      [] w \in {"Bank", "bank"} -> "bank"
      [] w \in {"Employee", "employee"} -> "employee"
      [] w \in {"ID", "id"} -> "id"
      [] OTHER -> w

\* word in str(c).lower(), for the headers made of the words above
Contains(c, word) == \E i \in 1..Len(c) : str_lower(c[i]) = word

\* the None a header search returns: the label of no word
NoColumn == <<>>

\* the first element of cols that satisfies the test, or None
FirstOf(cols, test(_)) ==
    LET hit == {i \in 1..Len(cols) : test(cols[i])}
    IN  IF hit = {} THEN NoColumn ELSE cols[CHOOSE i \in hit : \A j \in hit : i <= j]

\* detect_name_column with no exception for the bank name
detect_name_column_takes_any_name(t) ==
    LET full(c) == Contains(c, "full") /\ Contains(c, "name")
        named(c) == Contains(c, "name")
    IN  IF FirstOf(t.cols, full) # NoColumn THEN FirstOf(t.cols, full)
        ELSE FirstOf(t.cols, named)

detect_name_column(t) ==
    LET full(c) == Contains(c, "full") /\ Contains(c, "name")
        named(c) == Contains(c, "name") /\ c # ColBankName
    IN  IF FirstOf(t.cols, full) # NoColumn THEN FirstOf(t.cols, full)
        ELSE FirstOf(t.cols, named)

\* the headers the name detection is tried on
NameHeaders ==
    {ColFullName, <<"Full", "Name">>, <<"full", " ", "name">>,
     <<"Employee", " ", "Name">>, <<"NAME">>, ColBankName,
     <<"bank", " ", "name">>, <<"ID">>}

\* the empty tables with up to MaxCols distinct headers
NameInputs ==
    {[cols |-> h, rows |-> <<>>] :
        h \in {g \in UNION {[1..n -> NameHeaders] : n \in 0..MaxCols} :
                  \A i, j \in 1..Len(g) : i # j => g[i] # g[j]}}

\* Departed records of two managers with up to two exit reasons
ReasonInputs ==
    TablesUpTo([cols |-> <<ColEmployeeStatus, ColFullName, ColManager, RawJoinDate,
                           RawExitDate, ColExitReasonCategory>>,
                dom  |-> <<{S("Departed")},
                           {S("E1")},
                           {S("Alice"), S("Bob")},
                           {D(0 - 400)},
                           {D(0 - 10)},
                           {NaN, S("Personal"), S("Better Opportunity")}>>],
               MaxRows + 1)

\* the two copies of the pages: the tabs of app.py and the modules of
\* src/pages; a dashboard runs the pages of one copy
Copies == {"app", "pages"}

\* the exit types the regrettable turnover analysis takes as voluntary
Voluntary(copy) ==
    IF copy = "app" THEN {S("Resigned")} ELSE {S("Resigned"), S("Dropped")}

\* the exit types the attrition view counts as voluntary and as involuntary
SplitVoluntary(copy) ==
    IF copy = "app" THEN {S("Resigned")} ELSE {S("Resigned"), S("Dropped")}

SplitInvoluntary(copy) ==
    IF copy = "app" THEN {S("Terminated"), S("Dropped")} ELSE {S("Terminated")}

\* filtered_df[filtered_df['Employee Status'] == 'Departed']
Departed(t) == {r \in RowIds(t) : Cell(t, r, ColEmployeeStatus) = S("Departed")}

\* the analysis with the involuntary departures of the attrition view
regrettable_turnover_involuntary_as_in_split(t, copy) ==
    LET adv_departed == Departed(t)
        voluntary == {r \in adv_departed : Cell(t, r, ColExitType) \in Voluntary(copy)}
        months(r) == Cell(t, r, ColTenure)
    IN  IF adv_departed = {} \/ voluntary = {} \/ ~Has(t, ColTenure)
        THEN [copy |-> copy, shown |-> FALSE]
        ELSE [copy |-> copy, shown |-> TRUE,
              total |-> Cardinality(adv_departed),
              regrettable |->
                  Cardinality({r \in voluntary : ~IsNa(months(r)) /\ months(r)[2] >= 120}),
              early |->
                  Cardinality({r \in voluntary : ~IsNa(months(r)) /\ months(r)[2] < 120}),
              involuntary |->
                  Cardinality({r \in adv_departed :
                                  Cell(t, r, ColExitType) \in SplitInvoluntary(copy)})]

\* the regrettable turnover analysis: the three counts, shown when there is
\* a voluntary departure and a tenure column (12 months are 120 tenths)
regrettable_turnover(t, copy) ==
    LET adv_departed == Departed(t)
        voluntary == {r \in adv_departed : Cell(t, r, ColExitType) \in Voluntary(copy)}
        months(r) == Cell(t, r, ColTenure)
    IN  IF adv_departed = {} \/ voluntary = {} \/ ~Has(t, ColTenure)
        THEN [copy |-> copy, shown |-> FALSE]
        ELSE [copy |-> copy, shown |-> TRUE,
              total |-> Cardinality(adv_departed),
              regrettable |->
                  Cardinality({r \in voluntary : ~IsNa(months(r)) /\ months(r)[2] >= 120}),
              early |->
                  Cardinality({r \in voluntary : ~IsNa(months(r)) /\ months(r)[2] < 120}),
              involuntary |->
                  Cardinality({r \in adv_departed :
                                  Cell(t, r, ColExitType) \notin Voluntary(copy)})]

\* the voluntary / involuntary split of the attrition view
voluntary_split(t, copy) ==
    LET departed_df == Departed(t)
    IN  IF departed_df = {} THEN [copy |-> copy, shown |-> FALSE]
        ELSE [copy |-> copy, shown |-> TRUE,
              voluntary |->
                  Cardinality({r \in departed_df :
                                  Cell(t, r, ColExitType) \in SplitVoluntary(copy)}),
              involuntary |->
                  Cardinality({r \in departed_df :
                                  Cell(t, r, ColExitType) \in SplitInvoluntary(copy)}),
              total_departed |-> Cardinality(departed_df)]

\* records of every exit type, with a tenure below and above 12 months
TurnoverInputs ==
    TablesOf([cols |-> <<ColEmployeeStatus, ColExitType, RawJoinDate, RawExitDate>>,
              dom  |-> <<{S("Active"), S("Departed")},
                         {NaN, S("Resigned"), S("Dropped"), S("Terminated")},
                         {D(0 - 400), D(0 - 100)},
                         {D(0 - 10)}>>])

\* validated tables with and without a Type column
AddInputs ==
    TablesOf([cols |-> <<ColFullName>> \o REQUIRED_COLUMNS
                           \o <<RawJoinDate, RawExitDate, ColType>>,
              dom  |-> <<{S("Omar")}, {S("M")}, {S("HR")}, {S("Analyst")}, {S("Active")},
                         {NaN}, {D(0 - 400)}, {NaN},
                         {NaN, S("Full time"), S("Contractor")}>>])
    \cup TablesOf([cols |-> <<ColFullName>> \o REQUIRED_COLUMNS
                                \o <<RawJoinDate, RawExitDate>>,
                   dom  |-> <<{S("Omar")}, {S("M")}, {S("HR")}, {S("Analyst")},
                              {S("Active")}, {NaN}, {D(0 - 400)}, {NaN}>>])

PagesInputs == NameInputs \cup ReasonInputs \cup TurnoverInputs \cup AddInputs

PagesInit ==
    /\ uploaded \in PagesInputs
    /\ norm = None
    /\ load = None
    /\ filtered = None
    /\ kpis = None
    /\ disk = NoFile
    /\ reloaded = None
    /\ stage = "raw"
    /\ session = None
    /\ hr_file_name = None
    /\ df = None
    /\ msg = None
    /\ note = ""
    /\ del_confirm = FALSE
    /\ status_filter = "All"
    /\ other = NoFile
    /\ cohort = None
    /\ manager_data = None
    /\ name_col = None
    /\ turnover = None
    /\ split = None
    /\ role = None

\* NAME_COL = detect_name_column(df)
DetectNameColumn ==
    /\ stage = "raw"
    /\ name_col' = detect_name_column(uploaded)
    /\ stage' = "named"
    /\ UNCHANGED <<uploaded, norm, load, filtered, kpis, disk, reloaded>>
    /\ UNCHANGED <<appVars, cohort, manager_data, turnover, split, role>>

\* the advanced analytics and attrition pages on the processed records,
\* which hold the required columns
RegrettableTurnover ==
    /\ stage = "processed"
    /\ IsOk(load)
    /\ Has(load.df, ColEmployeeStatus) /\ Has(load.df, ColExitType)
    /\ filtered' = load.df
    /\ \E copy \in Copies :
          /\ turnover' = regrettable_turnover(load.df, copy)
          /\ split' = voluntary_split(load.df, copy)
    /\ stage' = "turnover"
    /\ UNCHANGED <<uploaded, norm, load, kpis, disk, reloaded>>
    /\ UNCHANGED <<appVars, cohort, manager_data, name_col, role>>

\* Add New Employee of either copy on a validated table, the form filled
\* for an Active employee: the table with the new row is saved
AddNewEmployee ==
    /\ stage = "processed"
    /\ IsOk(load)
    /\ \A i \in 1..Len(REQUIRED_COLUMNS) : Has(load.df, REQUIRED_COLUMNS[i])
    /\ \E copy \in Copies,
          form \in {[name |-> "Nada", status |-> "Active", exit_date |-> NaN,
                     exit_type |-> ""]},
          dept \in Options(Unique(load.df, ColDepartment)),
          pos \in Options(Unique(load.df, ColPosition)),
          type \in IF Has(load.df, ColEmploymentType)
                   THEN Options(Unique(load.df, ColEmploymentType))
                   ELSE {S("Full time")} :
          \E updated_df \in {Concat(load.df,
                                     IF copy = "app" THEN new_row(form, dept, pos, type)
                                     ELSE new_row_of_pages(form, dept, pos, type))} :
             /\ df' = updated_df
             /\ disk' = save_to_excel(updated_df)
    /\ stage' = "saved"
    /\ UNCHANGED <<uploaded, norm, load, filtered, kpis, reloaded>>
    /\ UNCHANGED <<session, hr_file_name, msg, note, del_confirm, status_filter, other>>
    /\ UNCHANGED <<reportVars, role>>

PagesNext ==
    \/ DetectNameColumn
    \/ RegrettableTurnover
    \/ AddNewEmployee
    \/ LoadExcel
    \/ ProcessData
    \/ ManagerAttrition

SpecPages == PagesInit /\ [][PagesNext]_vars

---------------------------------------------------------------------------
(* Properties of calculate_kpis *)

KpisDone == stage = "kpis" /\ kpis # None

StatusesKnown(t) ==
    /\ Has(t, ColEmployeeStatus) /\ ~Dup(t, ColEmployeeStatus)
    /\ \A r \in RowIds(t) : Cell(t, r, ColEmployeeStatus) \in {S("Active"), S("Departed")}

Hundred == Q(100, 1)
Zero == Q(0, 1)

\* C1 (as stated): for every non-empty record subset passed to
\* calculate_kpis, attrition_rate + retention_rate equals 100.
C1_AsStated ==
    (KpisDone /\ kpis.ok /\ kpis.total > 0)
        => QEq(QAdd(kpis.attrition_rate, kpis.retention_rate), Hundred)

\* C1 (amended): for every non-empty record subset in which every record's
\* Employee Status is Active or Departed, attrition_rate + retention_rate
\* equals 100.
C1_RatesSumTo100 ==
    (KpisDone /\ kpis.ok /\ kpis.total > 0 /\ StatusesKnown(filtered))
        => QEq(QAdd(kpis.attrition_rate, kpis.retention_rate), Hundred)

C1_Witness ==
    /\ KpisDone /\ kpis.ok /\ StatusesKnown(filtered)
    /\ kpis.total = MaxRows /\ kpis.departed = 1
    /\ QEq(kpis.attrition_rate, Q(100, MaxRows))

\* C2 (as stated): for every record subset passed to calculate_kpis the
\* returned total equals active + departed.
C2_AsStated ==
    (KpisDone /\ kpis.ok) => kpis.total = kpis.active + kpis.departed

\* C2 (amended): for every record subset in which every record's Employee
\* Status is Active or Departed, total equals active + departed.
C2_TotalIsActivePlusDeparted ==
    (KpisDone /\ kpis.ok /\ StatusesKnown(filtered))
        => kpis.total = kpis.active + kpis.departed

C2_Witness ==
    /\ KpisDone /\ kpis.ok /\ StatusesKnown(filtered)
    /\ kpis.active >= 1 /\ kpis.departed >= 1
    /\ kpis.total = kpis.active + kpis.departed /\ kpis.male_count = 1

EmptySubset == KpisDone /\ NRows(filtered) = 0 /\ Has(filtered, ColEmployeeStatus)

RatesZero ==
    /\ QEq(kpis.attrition_rate, Zero)
    /\ QEq(kpis.retention_rate, Zero)
    /\ QEq(kpis.contractor_ratio, Zero)
    /\ QEq(kpis.probation_pass_rate, Zero)
    /\ QEq(kpis.growth_rate, Zero)

\* C3 (as stated): for an empty record subset calculate_kpis raises no
\* exception and attrition_rate, retention_rate, contractor_ratio,
\* probation_pass_rate, growth_rate, avg_tenure and avg_age are exactly 0,
\* never NaN.
C3_AsStated ==
    EmptySubset
        => /\ kpis.ok
           /\ RatesZero
           /\ QEq(kpis.avg_tenure, Zero)
           /\ QEq(kpis.avg_age, Zero)

\* C3 (amended): for an empty record subset calculate_kpis raises no
\* exception and the five rates are exactly 0; avg_tenure (avg_age) is 0
\* when the Tenure (Months) (Age) column is absent and NaN when it is
\* present.
C3_EmptySubsetRates ==
    EmptySubset
        => /\ kpis.ok
           /\ RatesZero
           /\ IF Has(filtered, ColTenure) THEN QIsNaN(kpis.avg_tenure)
                                         ELSE QEq(kpis.avg_tenure, Zero)
           /\ IF Has(filtered, ColAge) THEN QIsNaN(kpis.avg_age)
                                      ELSE QEq(kpis.avg_age, Zero)

C3_Witness ==
    /\ EmptySubset /\ kpis.ok /\ NRows(load.df) > 0
    /\ Has(filtered, ColTenure) /\ Has(filtered, ColAge)
    /\ Has(filtered, ColEmploymentType) /\ Has(filtered, ColJoinYear)

---------------------------------------------------------------------------
(* Properties of process_data *)

Processed == stage # "raw" /\ load # None

\* h is a column of the table after the header step
InNorm(h) == \E i \in 1..Len(norm) : norm[i] = h

ProbationValues ==
    {S("Completed"), S("In Probation"), S("Left During Probation"),
     S("Completed Before Exit"), S("No Data")}

\* the decision order of the probation status, on one record
ProbationDecision(status, end, exit) ==
    CASE ~IsNa(end) /\ end[2] <= 0 -> S("Completed")
      [] ~(~IsNa(end) /\ end[2] <= 0) /\ status = S("Departed")
            /\ ~IsNa(end) /\ ~IsNa(exit) /\ exit[2] < end[2] -> S("Left During Probation")
      [] ~(~IsNa(end) /\ end[2] <= 0) /\ status = S("Departed")
            /\ ~(~IsNa(end) /\ ~IsNa(exit) /\ exit[2] < end[2]) -> S("Completed Before Exit")
      [] ~(~IsNa(end) /\ end[2] <= 0) /\ status # S("Departed") /\ ~IsNa(end)
            -> S("In Probation")
      [] OTHER -> S("No Data")

---------------------------------------------------------------------------
(* Properties of the save / load round trip *)

\* the derived columns the specification names
DerivedColumns ==
    {ColAge, ColTenure, ColJoinYear, ColJoinMonth, ColJoinQuarter, ColExitYear,
     ColExitMonth, ColProbationCompleted, ColEmploymentType}

NonDerived(t) == ColSet(t) \ DerivedColumns

IsEmptyCell(c) == IsNa(c) \/ c = S("")

\* C5 (as stated): load_excel(save_to_excel(table)) has the same number of
\* rows in the same order and the same value in every non-derived field.
C5_AsStated ==
    stage = "reloaded"
        => /\ IsOk(reloaded)
           /\ NRows(reloaded.df) = NRows(load.df)
           /\ \A h \in NonDerived(load.df) :
                 /\ Has(reloaded.df, h)
                 /\ \A r \in RowIds(load.df) :
                       Cell(reloaded.df, r, h) = Cell(load.df, r, h)

\* the last row of t that holds a value in a non-derived field (0: none)
LastSourceRow(t) ==
    LET full == {r \in RowIds(t) :
                    \E i \in 1..Len(t.cols) :
                        t.cols[i] \notin DerivedColumns /\ ~IsEmptyCell(t.rows[r][i])}
    IN  IF full = {} THEN 0 ELSE CHOOSE r \in full : \A q \in full : q <= r

\* what a non-derived value is after the round trip: an empty string comes
\* back as a missing value, and process_data fills a missing Nationality,
\* Vendor and Exit ReasonList
AfterRoundTrip(h, c) ==
    LET e == IF c = S("") THEN NaN ELSE c
    IN  CASE h = ColNationality -> fillna(e, S("Unknown"))
          [] h = ColVendor -> fillna(e, S("Direct Hire"))
          [] h = ColExitReasonList -> fillna(e, S(""))
          [] OTHER -> e

\* C5 (amended): load_excel(save_to_excel(table)) holds, in the same order,
\* the rows of the table up to its last row with a non-empty non-derived
\* value, and every non-derived field of these rows has the same value,
\* except that an empty string is reloaded as a missing value (filled with
\* the default where process_data fills missing values).
C5_RoundTrip ==
    stage = "reloaded"
        => /\ IsOk(reloaded)
           /\ NRows(reloaded.df) = LastSourceRow(load.df)
           /\ \A h \in NonDerived(load.df) :
                 /\ Has(reloaded.df, h)
                 /\ \A r \in RowIds(reloaded.df) :
                       Cell(reloaded.df, r, h) = AfterRoundTrip(h, Cell(load.df, r, h))

C5_Witness ==
    /\ stage = "reloaded" /\ IsOk(reloaded)
    /\ Has(load.df, ColExitType)
    /\ NRows(load.df) = MaxRows /\ NRows(reloaded.df) = MaxRows
    /\ Cell(load.df, 1, ColExitType) = S("")
    /\ Cell(reloaded.df, 1, ColExitType) = NaN
    /\ Cell(reloaded.df, MaxRows, ColEmployeeStatus) = S("Departed")

\* C7: for each of the three renamed columns the header save_to_excel writes
\* is exactly the key of process_data's rename map, and the canonical name
\* is absent from the file.
C7_SaveWritesRenameKey ==
    stage = "saved"
        => \A k \in DOMAIN rename_map :
              Has(load.df, rename_map[k])
                  => Has(disk, k) /\ ~Has(disk, rename_map[k])

---------------------------------------------------------------------------
(* Properties of the header step *)

\* the words of a header, whitespace and newlines left out
RECURSIVE Words(_)
Words(h) ==
    IF h = <<>> THEN <<>>
    ELSE (IF IsSpace(Head(h)) THEN <<>> ELSE <<Head(h)>>) \o Words(Tail(h))

\* no newline inside, no whitespace at either end
IsClean(h) ==
    /\ \A i \in 1..Len(h) : h[i] # "\n"
    /\ h # <<>> => ~IsSpace(h[1]) /\ ~IsSpace(h[Len(h)])

\* a spelling of one of the legacy headers the rename map knows
InRenameMap(h) == \E k \in DOMAIN rename_map : Words(h) = Words(k)

HeadersKept ==
    /\ Len(norm) = Len(uploaded.cols)
    /\ IsOk(load) => SubSeq(load.df.cols, 1, Len(norm)) = norm
    /\ \A i \in 1..Len(norm) :
          ~InRenameMap(uploaded.cols[i])
              => /\ IsClean(norm[i])
                 /\ Words(norm[i]) = Words(uploaded.cols[i])
                 /\ IsClean(uploaded.cols[i]) => norm[i] = uploaded.cols[i]

\* C9 (as stated): the header step keeps every column at its position,
\* leaves headers outside the rename map unchanged apart from
\* newline/whitespace stripping, and the resulting column names are
\* pairwise distinct.
C9_AsStated ==
    Processed
        => /\ HeadersKept
           /\ \A i, j \in 1..Len(norm) : i # j => norm[i] # norm[j]

\* C9 (amended): the header step keeps every column at its position and
\* leaves headers outside the rename map unchanged apart from
\* newline/whitespace stripping; two columns get the same name only if
\* their raw headers differ by whitespace or newlines alone or one of them
\* is a legacy spelling the rename map replaces.
C9_HeaderStep ==
    Processed
        => /\ HeadersKept
           /\ \A i, j \in 1..Len(norm) :
                 (i # j /\ norm[i] = norm[j])
                     => \/ Words(uploaded.cols[i]) = Words(uploaded.cols[j])
                        \/ InRenameMap(uploaded.cols[i])
                        \/ InRenameMap(uploaded.cols[j])

C9_Witness ==
    /\ Processed /\ IsOk(load)
    /\ Len(norm) = MaxCols
    /\ uploaded.cols[1] = <<" ", "Gender", " ">> /\ norm[1] = ColGender
    /\ uploaded.cols[2] = <<"Notes", "\n", "HR">> /\ norm[2] = <<"Notes", " ", "HR">>
    /\ norm[MaxCols] = ColGender

DerivedSources ==
    {<<ColAge, ColBirthdayDate>>, <<ColTenure, ColJoinDate>>,
     <<ColJoinYear, ColJoinDate>>, <<ColJoinMonth, ColJoinDate>>,
     <<ColJoinQuarter, ColJoinDate>>, <<ColExitYear, ColExitDate>>,
     <<ColExitMonth, ColExitDate>>, <<ColProbationCompleted, ColProbationEnd>>}

\* C10: a derived column exists in the output of process_data if and only
\* if its source column exists in the input (Age / Birthday Date; Tenure,
\* Join Year, Join Month, Join Quarter / Join Date; Exit Year, Exit Month /
\* Exit Date; Probation Completed / Probation Period End Date).
C10_DerivedIffSource ==
    Processed
        => \A p \in DerivedSources :
              (IsOk(load) /\ Has(load.df, p[1]))
                  <=> (\E i \in 1..Len(norm) : norm[i] = p[2])

\* the header step produced no label twice
NormDistinct == \A i, j \in 1..Len(norm) : norm[i] = norm[j] => i = j

\* tenure measured from Join Date to now
TenureToNow(join) == IF IsNa(join) THEN N(0) ELSE N(TenureTenths(DaysSince(join)))

\* C11: when the input table has a Join Date column but no Exit Date
\* column, process_data completes without raising and produces a Tenure
\* (Months) column, with tenure measured from Join Date to now for every
\* record, also for the records whose status is Departed.
C11_TenureWithoutExitDate ==
    (Processed /\ NormDistinct /\ InNorm(ColEmployeeStatus)
               /\ InNorm(ColJoinDate) /\ ~InNorm(ColExitDate))
        => /\ IsOk(load)
           /\ Has(load.df, ColTenure)
           /\ \A r \in RowIds(load.df) :
                 Cell(load.df, r, ColTenure) = TenureToNow(Cell(load.df, r, ColJoinDate))

\* elapsed days of a record: now - Join Date when Active, Exit Date - Join
\* Date otherwise; NaN when a needed date is null
ElapsedDays(status, join, exit) ==
    IF status = S("Active")
    THEN IF IsNa(join) THEN NaN ELSE N(0 - join[2])
    ELSE IF IsNa(join) \/ IsNa(exit) THEN NaN ELSE N(exit[2] - join[2])

\* Join <= Exit <= now
Monotonic(join, exit) ==
    ~IsNa(join) /\ ~IsNa(exit) /\ join[2] <= exit[2] /\ exit[2] <= 0

RawCell(r, h) == uploaded.rows[r][CHOOSE i \in 1..Len(norm) : norm[i] = h]

\* integer floor of elapsed days / 365.25
AgeFloor(birthday) == N(((0 - birthday[2]) * 100) \div 36525)

AgeColumn == Processed /\ NormDistinct /\ InNorm(ColBirthdayDate) /\ IsOk(load)

\* C13 as stated: for every record whose Birthday Date is present
\* (parseable) the Age is the integer floor of elapsed days / 365.25 and is
\* >= 0; for every record whose Birthday Date is null or unparseable the Age
\* is exactly 0.
C13_AsStated ==
    AgeColumn
        => /\ Has(load.df, ColAge)
           /\ \A r \in RowIds(load.df) :
                 IF IsDate(RawCell(r, ColBirthdayDate))
                 THEN /\ Cell(load.df, r, ColAge) = AgeFloor(RawCell(r, ColBirthdayDate))
                      /\ Cell(load.df, r, ColAge)[2] >= 0
                 ELSE Cell(load.df, r, ColAge) = N(0)

\* C13, amended: for every record whose Birthday Date is present and not
\* after now, the Age is the integer floor of elapsed days / 365.25 and is
\* >= 0; for every record whose Birthday Date is null or unparseable the Age
\* is exactly 0.
C13_AgeOfPastBirthday ==
    AgeColumn
        => /\ Has(load.df, ColAge)
           /\ \A r \in RowIds(load.df) :
                 IF IsDate(RawCell(r, ColBirthdayDate))
                 THEN RawCell(r, ColBirthdayDate)[2] <= 0
                         => /\ Cell(load.df, r, ColAge) = AgeFloor(RawCell(r, ColBirthdayDate))
                            /\ Cell(load.df, r, ColAge)[2] >= 0
                 ELSE Cell(load.df, r, ColAge) = N(0)

\* a birthday 12783 days ago gives 34; an unparseable one gives 0
C13_Witness ==
    /\ AgeColumn /\ NRows(load.df) = 2
    /\ RawCell(1, ColBirthdayDate) = D(0 - 12783)
    /\ Cell(load.df, 1, ColAge) = N(34)
    /\ RawCell(2, ColBirthdayDate) = S("n/a")
    /\ Cell(load.df, 2, ColAge) = N(0)

\* the records of the subset with probation data, and those that passed
WithProbationData ==
    IF Has(filtered, ColProbationCompleted)
    THEN {r \in RowIds(filtered) : Cell(filtered, r, ColProbationCompleted) # S("No Data")}
    ELSE {}

Passed ==
    {r \in WithProbationData :
        Cell(filtered, r, ColProbationCompleted)
            \in {S("Completed"), S("Completed Before Exit")}}

\* C14: probation_pass_rate is the percentage of records in {Completed,
\* Completed Before Exit} among the records whose Probation Completed is
\* not No Data; No Data records never count in the denominator, and the
\* rate is 0 when the column is absent or no record has probation data.
C14_ProbationPassRate ==
    (KpisDone /\ kpis.ok)
        => IF WithProbationData = {}
           THEN kpis.probation_pass_rate = Zero
           ELSE QEq(kpis.probation_pass_rate,
                    Q(Cardinality(Passed) * 100, Cardinality(WithProbationData)))

\* one Completed record and one No Data record: the rate is 100, not 50
C14_Witness ==
    /\ KpisDone /\ kpis.ok /\ NRows(filtered) = 2
    /\ Has(filtered, ColProbationCompleted)
    /\ Cell(filtered, 1, ColProbationCompleted) = S("Completed")
    /\ Cell(filtered, 2, ColProbationCompleted) = S("No Data")
    /\ QEq(kpis.probation_pass_rate, Hundred)

CohortDone == stage = "cohort" /\ cohort # None /\ Has(filtered, ColJoinYear)

\* the join years of the records handed to get_cohort_retention
JoinYears == {Cell(filtered, r, ColJoinYear) : r \in RowIds(filtered)} \ {NaN}

\* the records of join year y
Cohort(y) == {r \in RowIds(filtered) : Cell(filtered, r, ColJoinYear) = y}

ActiveIn(y) == {r \in Cohort(y) : Cell(filtered, r, ColEmployeeStatus) = S("Active")}
DepartedIn(y) == {r \in Cohort(y) : Cell(filtered, r, ColEmployeeStatus) = S("Departed")}

\* one row per Join Year > 2000, none for a Join Year <= 2000, no other row
CohortYears ==
    /\ IsOk(cohort)
    /\ \A y \in JoinYears :
          Cardinality({i \in RowIds(cohort.df) : Cell(cohort.df, i, ColJoinYear) = y})
              = (IF y[2] > 2000 THEN 1 ELSE 0)
    /\ \A i \in RowIds(cohort.df) : Cell(cohort.df, i, ColJoinYear) \in JoinYears

\* C15 as stated: get_cohort_retention returns one row per Join Year > 2000
\* and no row for any Join Year <= 2000; in each row Total = Active +
\* Departed counts the records of that join year and Retention Rate % =
\* Active / Total * 100.
C15_AsStated ==
    CohortDone
        => /\ CohortYears
           /\ \A i \in RowIds(cohort.df) :
                 LET y == Cell(cohort.df, i, ColJoinYear)
                 IN  /\ Cell(cohort.df, i, ColTotal) = N(Cardinality(Cohort(y)))
                     /\ Cell(cohort.df, i, ColActive) = N(Cardinality(ActiveIn(y)))
                     /\ Cell(cohort.df, i, ColDeparted) = N(Cardinality(DepartedIn(y)))
                     /\ Cardinality(Cohort(y))
                            = Cardinality(ActiveIn(y)) + Cardinality(DepartedIn(y))
                     /\ ~IsNa(Cell(cohort.df, i, ColRetentionRate))
                     /\ Cell(cohort.df, i, ColRetentionRate)[2] * Cardinality(Cohort(y))
                            = Cardinality(ActiveIn(y)) * 1000

\* C15, amended: get_cohort_retention returns one row per Join Year > 2000
\* and no row for any Join Year <= 2000; in each row whose cohort holds only
\* Active and Departed records, Total = Active + Departed counts the records
\* of that join year and Retention Rate % is Active / Total * 100 rounded to
\* one decimal.
C15_CohortRows ==
    CohortDone
        => /\ CohortYears
           /\ \A i \in RowIds(cohort.df) :
                 LET y == Cell(cohort.df, i, ColJoinYear)
                     n == Cardinality(Cohort(y))
                     a == Cardinality(ActiveIn(y))
                     rate == Cell(cohort.df, i, ColRetentionRate)
                 IN  Cohort(y) = ActiveIn(y) \cup DepartedIn(y)
                        => /\ Cell(cohort.df, i, ColTotal) = N(n)
                           /\ Cell(cohort.df, i, ColActive) = N(a)
                           /\ Cell(cohort.df, i, ColDeparted) = N(Cardinality(DepartedIn(y)))
                           /\ ~IsNa(rate)
                           /\ 2 * (rate[2] * n - a * 1000) <= n
                           /\ 2 * (a * 1000 - rate[2] * n) <= n

\* three records, one of them joined in 1999: a single row, for 2025, with
\* one Active and one Departed record and a rate of 50.0
C15_Witness ==
    /\ CohortDone /\ IsOk(cohort)
    /\ NRows(filtered) = 3
    /\ N(1999) \in JoinYears
    /\ NRows(cohort.df) = 1
    /\ Cell(cohort.df, 1, ColJoinYear) = N(2025)
    /\ Cell(cohort.df, 1, ColTotal) = N(2)
    /\ Cell(cohort.df, 1, ColActive) = N(1)
    /\ Cell(cohort.df, 1, ColRetentionRate) = N(500)

ManagersDone == stage = "managers" /\ manager_data # None

\* the Departed records handed to get_manager_attrition
DepartedRecords ==
    {r \in RowIds(filtered) : Cell(filtered, r, ColEmployeeStatus) = S("Departed")}

\* the precondition of an analyzer is not met
NoCohort ==
    ~Has(filtered, ColJoinYear) \/ \A y \in JoinYears : y[2] <= 2000

NoManagerData ==
    \/ ~Has(filtered, ColManager)
    \/ \A r \in DepartedRecords : IsNa(Cell(filtered, r, ColManager))

\* C16: when an analyzer's precondition is not met (get_cohort_retention
\* without a Join Year column or with no row surviving the year filter;
\* get_manager_attrition without the manager column, with no Departed
\* record, or with no Departed record having a manager), it returns a
\* zero-row table with the column schema of a non-empty result, never an
\* exception.
C16_EmptyResultKeepsSchema ==
    /\ (stage = "cohort" /\ cohort # None /\ NoCohort)
          => /\ IsOk(cohort)
             /\ NRows(cohort.df) = 0
             /\ ColSet(cohort.df) = {ColJoinYear, ColTotal, ColActive, ColDeparted,
                                     ColRetentionRate}
    /\ (ManagersDone /\ NoManagerData)
          => /\ IsOk(manager_data)
             /\ NRows(manager_data.df) = 0
             /\ {ColManagerCRM, ColDepartures} \subseteq ColSet(manager_data.df)

\* the Departed records under manager m
DeparturesUnder(m) == {r \in DepartedRecords : Cell(filtered, r, ColManager) = m}

\* the managers that have a Departed record
Managers == {Cell(filtered, r, ColManager) : r \in DepartedRecords} \ {NaN}

\* C17: get_manager_attrition returns exactly one row per manager that has
\* at least one Departed record with a non-null manager identifier; that
\* row's Departures equals the number of such Departed records under the
\* manager (Active records and records with null manager never count), and
\* rows are ordered by Departures descending.
C17_DeparturesPerManager ==
    (ManagersDone /\ Has(filtered, ColManager) /\ Has(filtered, ColEmployeeStatus))
        => /\ IsOk(manager_data)
           /\ NRows(manager_data.df) = Cardinality(Managers)
           /\ \A m \in Managers :
                 \E i \in RowIds(manager_data.df) :
                    /\ Cell(manager_data.df, i, ColManagerCRM) = m
                    /\ Cell(manager_data.df, i, ColDepartures)
                          = N(Cardinality(DeparturesUnder(m)))
           /\ \A i, j \in RowIds(manager_data.df) :
                 i < j => Cell(manager_data.df, i, ColDepartures)[2]
                             >= Cell(manager_data.df, j, ColDepartures)[2]

\* C18: with the manager column present but no Tenure (Months) column
\* and/or no Exit Reason Category column, get_manager_attrition does not
\* raise, still returns Manager CRM and Departures, and omits the Avg Tenure
\* (Months) respectively the Top Exit Reason column from the result.
C18_OptionalColumnsAbsent ==
    (ManagersDone /\ Has(filtered, ColManager) /\ Has(filtered, ColFullName)
                  /\ DepartedRecords # {}
                  /\ (~Has(filtered, ColTenure) \/ ~Has(filtered, ColExitReasonCategory)))
        => /\ IsOk(manager_data)
           /\ Has(manager_data.df, ColManagerCRM)
           /\ Has(manager_data.df, ColDepartures)
           /\ ~Has(filtered, ColTenure) => ~Has(manager_data.df, ColAvgTenure)
           /\ ~Has(filtered, ColExitReasonCategory)
                 => ~Has(manager_data.df, ColTopExitReason)

---------------------------------------------------------------------------
(* Properties of the dashboard *)

\* C6: after any sequence of load, add, update, delete and save operations
\* the persisted file never contains a derived column (Age, Tenure (Months),
\* Join Year, Join Month, Join Quarter, Exit Year, Exit Month, Probation
\* Completed, Employment Type).
C6_NoDerivedColumnPersisted ==
    disk # NoFile => \A i \in 1..Len(disk.cols) : disk.cols[i] \notin DerivedColumns

C6_Witness ==
    /\ disk # NoFile
    /\ df # None /\ DerivedColumns \subseteq ColSet(df)
    /\ Has(disk, RawJoinDate) /\ Has(disk, RawExitDate) /\ Has(disk, ColType)
    /\ NRows(disk) = NRows(df) + 1
    /\ note = ""

\* the required columns the uploaded workbook lacks
Lacking(f) == Missing([cols |-> NormalizeHeaders(f.cols), rows |-> f.rows])

\* C8: whenever the uploaded table lacks a required column, ingestion ends
\* in the 'Missing required columns' condition listing exactly the missing
\* ones, and no table of that upload reaches the filters, the KPIs or the
\* session cache.
C8_MissingRequiredColumns ==
    (uploaded # NoFile /\ Lacking(uploaded) # <<>>)
        => /\ msg.kind = "Missing required columns"
           /\ msg.detail = Lacking(uploaded)
           /\ df = None /\ filtered = None /\ kpis = None
           /\ session # None => Missing(session) = <<>>

\* C19: record mutation is role-gated: the add, update and delete entry
\* points are reachable only when the current user role is editor or
\* admin; with role viewer no interaction reaches them or causes a save (no
\* step writes the persisted file or ends in a message of the edit forms).
C19_RoleGated ==
    [][role = "viewer" => (disk' = disk /\ note' = "")]_vars

\* C20: when save_to_excel fails during an add, update or delete, the error
\* is surfaced to the user and the attempted change is not partially
\* applied: the persisted file keeps its prior content and the in-memory
\* table, the one held in session state included, is the same as before the
\* operation.
C20_FailedSaveChangesNothing ==
    [][note' = "Error saving" => (disk' = disk /\ session' = session /\ df' = df)]_vars

\* the names of the records of t
Names(t) == {Cell(t, r, ColFullName) : r \in RowIds(t)}

\* the records of the canonical table the filters exclude
Excluded == {r \in RowIds(session) :
                \A q \in RowIds(filtered) : filtered.rows[q] # session.rows[r]}

\* the excluded records the file f does not hold
Lost(f) == {r \in Excluded : Cell(session, r, ColFullName) \notin Names(f)}

\* C21: every save triggered by add, update or delete writes the full
\* canonical table, plus or minus the one changed record, never the
\* filtered subset: whatever the filter setting, the records the filters
\* exclude are in the persisted file after the save (all of them after an
\* add or an update, all but the deleted one after a delete).
C21_SaveWritesCanonicalTable ==
    [][(disk' # disk /\ session # None /\ filtered # None)
          => /\ NRows(disk') \in {NRows(session) - 1, NRows(session), NRows(session) + 1}
             /\ NRows(disk') >= NRows(session) => Lost(disk') = {}
             /\ Cardinality(Lost(disk')) <= 1]_vars

C21_Witness ==
    /\ disk # NoFile /\ note = ""
    /\ status_filter = "Active"
    /\ session # None /\ NRows(session) = 2
    /\ filtered # None /\ NRows(filtered) = 1
    /\ NRows(disk) = 3
    /\ {S("Sara"), S("Ali"), S("Nada")} \subseteq Names(disk)

\* the upload holds every required column after the header step
Complete(ld) == \A i \in 1..Len(REQUIRED_COLUMNS) : Has(ld.df, REQUIRED_COLUMNS[i])

\* C22: loading a source table is a full replacement: after a successful
\* upload the session's table and the cached file name are exactly the
\* processed content and the name of the newly uploaded file, and an upload
\* that fails validation or raises leaves the cached table (and name)
\* unchanged.
C22_UploadReplaces ==
    [][(uploaded' # NoFile /\ uploaded' # uploaded)
          => \E ld \in {load_excel(uploaded')} :
                IF IsOk(ld) /\ Complete(ld)
                THEN session' = ld.df /\ hr_file_name' = FileName(uploaded')
                ELSE session' = session /\ hr_file_name' = hr_file_name]_vars

C22_Witness ==
    /\ uploaded # NoFile /\ uploaded # MasterSheet
    /\ msg.kind = "Missing required columns"
    /\ session = load_excel(MasterSheet).df
    /\ hr_file_name = "Master.xlsx"

---------------------------------------------------------------------------
(* Properties of the page helpers *)

IsFullName(c) == Contains(c, "full") /\ Contains(c, "name")

IsOtherName(c) == Contains(c, "name") /\ c # ColBankName

\* x is the first header of cols that satisfies the test
IsFirst(x, cols, test(_)) ==
    \E i \in 1..Len(cols) :
        /\ x = cols[i] /\ test(cols[i])
        /\ \A j \in 1..(i - 1) : ~test(cols[j])

ReasonsUnder(m) ==
    {Cell(filtered, r, ColExitReasonCategory) : r \in DeparturesUnder(m)} \ {NaN}

\* the number of departures under m with exit reason v
Freq(m, v) ==
    Cardinality({r \in DeparturesUnder(m) : Cell(filtered, r, ColExitReasonCategory) = v})

MostFrequent(m) == {v \in ReasonsUnder(m) : \A w \in ReasonsUnder(m) : Freq(m, w) <= Freq(m, v)}

\* the first record under m with exit reason v
FirstSeen(m, v) ==
    CHOOSE r \in DeparturesUnder(m) :
        /\ Cell(filtered, r, ColExitReasonCategory) = v
        /\ \A q \in DeparturesUnder(m) :
               Cell(filtered, q, ColExitReasonCategory) = v => r <= q

\* the Top Exit Reason of the row of manager m
TopOf(m) ==
    Cell(manager_data.df,
         CHOOSE q \in RowIds(manager_data.df) : Cell(manager_data.df, q, ColManagerCRM) = m,
         ColTopExitReason)

TopReasonsDone ==
    /\ ManagersDone /\ IsOk(manager_data)
    /\ Has(filtered, ColExitReasonCategory)
    /\ Has(manager_data.df, ColTopExitReason)

TurnoverShown == stage = "turnover" /\ turnover.shown /\ split.shown

Reflects(t, f) ==
    /\ t # None
    /\ NRows(t) = NRows(f)
    /\ \A r \in RowIds(t) :
          \A h \in {ColFullName, ColDepartment, ColEmployeeStatus, ColExitType} :
              Cell(t, r, h) = Cell(f, r, h)

\* C26: after a successful add, update or delete and the rerun it triggers,
\* the table the dashboard works on reflects the change: it holds the
\* records that were saved (an added record is present, a deleted record is
\* absent, updated fields carry their new values).
C26_RerunReflectsChange ==
    [][(disk' # disk /\ note' = "") => Reflects(df', disk')]_vars

\* the exit date of record r, under the label of the table or of the file
ExitDateOf(t, r) ==
    IF Has(t, ColExitDate) THEN Cell(t, r, ColExitDate)
    ELSE IF Has(t, RawExitDate) THEN Cell(t, r, RawExitDate)
    ELSE NaN

\* Departed records have an exit date, Active records have neither an exit
\* date nor an exit type
StatusMatchesExit(t) ==
    \A r \in RowIds(t) :
        /\ Cell(t, r, ColEmployeeStatus) = S("Departed") => ~IsNa(ExitDateOf(t, r))
        /\ Cell(t, r, ColEmployeeStatus) = S("Active")
              => IsNa(ExitDateOf(t, r)) /\ IsEmptyCell(Cell(t, r, ColExitType))

\* C27: after any sequence of add and update operations starting from a
\* table in which every Departed record has an Exit Date and no Active
\* record has one, the table (the one in the session and the one saved)
\* still satisfies: Employee Status = Departed implies Exit Date is present,
\* and Employee Status = Active implies Exit Date and Exit Type are empty.
C27_StatusMatchesExit ==
    /\ session # None => StatusMatchesExit(session)
    /\ disk # NoFile => StatusMatchesExit(disk)

\* C28: with every sidebar filter at its default (full join-date range, all
\* departments selected, every select box on 'All') the filtered subset
\* equals the whole canonical table, so no record is excluded and no KPI
\* delta is shown; right after Reset All Filters every filter is at its
\* default and the filtered subset equals the whole table.
C28_DefaultsShowWholeTable ==
    [][/\ (status_filter' = "All" /\ df' # None /\ filtered' # None) => filtered' = df'
       /\ (ResetAllFilters /\ df' # None /\ filtered' # None)
             => (status_filter' = "All" /\ filtered' = df')]_vars

\* C29: a record is deleted only after explicit confirmation: a table that
\* lacks a record of the canonical table (the table a run loads from the
\* upload widget or takes from the session cache) is saved only in a run in which
\* the confirmation checkbox is checked (the Delete button cannot be pressed
\* otherwise), and the saved table is the canonical table without exactly
\* one record, all other records unchanged.
C29_DeleteNeedsConfirmation ==
    [][(disk' # disk /\ stage = "rendered")
          => \E canonical \in {IF uploaded # NoFile THEN load.df ELSE session} :
                NRows(disk') < NRows(canonical)
                   => /\ del_confirm'
                      /\ \E del_idx \in RowIds(canonical) :
                            disk' = save_to_excel(Subset(canonical,
                                                         RowIds(canonical) \ {del_idx}))]_vars

C29_Witness ==
    /\ del_confirm /\ note = ""
    /\ session # None /\ NRows(session) = 2
    /\ disk # NoFile /\ NRows(disk) = 1
    /\ Names(disk) = {S("Ali")}
    /\ Names(session) = {S("Sara"), S("Ali")}

\* the employment type selected in the add form, as the new row holds it
Selected ==
    IF ~IsNa(Cell(df, NRows(df), ColEmploymentType))
    THEN Cell(df, NRows(df), ColEmploymentType)
    ELSE IF Has(df, ColType) THEN Cell(df, NRows(df), ColType) ELSE NaN

\* C30: after Add Employee, save and reload, the Employment Type of the added
\* record equals the value selected in the form
C30_EmploymentTypeSurvives ==
    (stage = "reloaded" /\ df # None /\ ~IsNa(Selected))
        => /\ IsOk(reloaded)
           /\ NRows(reloaded.df) = NRows(df)
           /\ Cell(reloaded.df, NRows(df), ColEmploymentType) = Selected

====
